---- MODULE Spec2Model ----
(***************************************************************************)
(* Argus: automated remediation and pull-request pipeline.                 *)
(*                                                                         *)
(* Strings are modelled as sequences of tokens.  A token is either one     *)
(* character (" ", "CR", "LF", "=", "/", a quote, ...) or an atom that     *)
(* stands for a run of characters which the code never splits ("secret",   *)
(* "gitleaks", ".env", a path component, ...).  The string functions of    *)
(* the Go library (TrimSpace, ToLower, Contains, Split, Join, Clean, ...)  *)
(* are operators over these sequences.                                     *)
(***************************************************************************)
EXTENDS Integers, Sequences, FiniteSets, TLC

(***************************************************************************)
(* Bounds of the model.                                                    *)
(***************************************************************************)
MaxFindings == 3
MaxCap == 3
MaxPlanLen == 2

(***************************************************************************)
(* String helpers (package strings).                                       *)
(***************************************************************************)
\* the element of a one-element set; The({e(v) : v \in {x}}) is e(x) with x
\* evaluated once
The(S) == CHOOSE x \in S : TRUE

SP == " "
CR == "CR"
LF == "LF"

\* unicode.IsSpace on the tokens of the model
IsSpace(c) == c \in {SP, CR, LF}

\* strings.ToLower, token by token
LowerOf(c) ==
  CASE c = "Secret" -> "secret"
    [] c = "SECRET" -> "secret"
    [] c = "Gitleaks" -> "gitleaks"
    [] c = "HTTPS:" -> "https:"
    [] c = "GitHub.com" -> "github.com"
    [] c = ".GIT" -> ".git"
    [] OTHER -> c

ToLower(s) == [i \in 1..Len(s) |-> LowerOf(s[i])]

RECURSIVE TrimLeft(_)
TrimLeft(s) ==
  IF s # <<>> /\ IsSpace(Head(s)) THEN TrimLeft(Tail(s)) ELSE s

RECURSIVE TrimRight(_)
TrimRight(s) ==
  IF s # <<>> /\ IsSpace(s[Len(s)]) THEN TrimRight(SubSeq(s, 1, Len(s) - 1)) ELSE s

\* strings.TrimSpace
TrimSpace(s) == The({TrimRight(TrimLeft(v)) : v \in {s}})

\* strings.Contains
Contains(s, sub) ==
  \E i \in 1..(Len(s) - Len(sub) + 1) : SubSeq(s, i, i + Len(sub) - 1) = sub

\* strings.HasPrefix / strings.HasSuffix
HasPrefix(s, p) == Len(s) >= Len(p) /\ SubSeq(s, 1, Len(p)) = p
HasSuffix(s, p) == Len(s) >= Len(p) /\ SubSeq(s, Len(s) - Len(p) + 1, Len(s)) = p

\* filepath.ToSlash: the separator of the deployment platform is already "/"
ToSlash(s) == s

SeqsUpTo(S, n) == UNION {[1..k -> S] : k \in 0..n}

(***************************************************************************)
(* Patch Planner (package patch).                                          *)
(***************************************************************************)
FixSecretRedaction == "secret_redaction"
FixGitIgnoreEnv == "gitignore_env"
DefaultMaxFixes == 10

DescRedact == "Replace hardcoded credential-like value with environment placeholder"
DescIgnore == "Ensure .env is ignored"
ReasonAmbiguous == "manual fix required: ambiguous or potentially unsafe automatic change"

GitignorePath == <<".gitignore">>

SecretRedactionAction(filePath, line) ==
  [Type |-> FixSecretRedaction, FilePath |-> filePath, LineStart |-> line,
   Description |-> DescRedact]

GitIgnoreEnvAction ==
  [Type |-> FixGitIgnoreEnv, FilePath |-> GitignorePath, LineStart |-> 0,
   Description |-> DescIgnore]

EmptyPlan == [Actions |-> <<>>, Manual |-> <<>>]

\* maxFixes <= 0 selects the default
EffectiveMax(maxFixes) == IF maxFixes <= 0 THEN DefaultMaxFixes ELSE maxFixes

\* the loop's exit test
CapReached_Never(plan, maxFixes) == FALSE
CapReached_OffByOne(plan, maxFixes) == Len(plan.Actions) > maxFixes
CapReached(plan, maxFixes) == Len(plan.Actions) >= maxFixes

\* the classification of one finding as an automatable secret finding
IsSecretFinding_TitleOnly(f) ==
  Contains(ToLower(TrimSpace(f.Title)), <<"secret">>)
    /\ ToSlash(TrimSpace(f.FilePath)) # <<>>
IsSecretFinding(f) ==
  LET filePath == ToSlash(TrimSpace(f.FilePath))
      title == ToLower(TrimSpace(f.Title))
      tool == ToLower(TrimSpace(f.Tool))
  IN (tool = <<"gitleaks">> \/ Contains(title, <<"secret">>)) /\ filePath # <<>>

\* one iteration of the loop body: st = [plan, seenGitignore]
PlanStep_RecordFirst(st, f) ==
  IF IsSecretFinding(f)
  THEN [st EXCEPT !.plan.Actions =
          Append(@, SecretRedactionAction(ToSlash(TrimSpace(f.FilePath)), f.LineStart))]
  ELSE [st EXCEPT !.plan.Actions =
                    IF st.seenGitignore THEN @ ELSE Append(@, GitIgnoreEnvAction),
                  !.seenGitignore = TRUE,
                  !.plan.Manual =
          Append(@, [Reason |-> ReasonAmbiguous, Title |-> f.Title, File |-> f.FilePath])]
PlanStep(st, f) ==
  IF IsSecretFinding(f)
  THEN [st EXCEPT !.plan.Actions =
          Append(@, SecretRedactionAction(ToSlash(TrimSpace(f.FilePath)), f.LineStart))]
  ELSE IF ~st.seenGitignore
  THEN [st EXCEPT !.plan.Actions = Append(@, GitIgnoreEnvAction),
                  !.seenGitignore = TRUE]
  ELSE [st EXCEPT !.plan.Manual =
          Append(@, [Reason |-> ReasonAmbiguous, Title |-> f.Title, File |-> f.FilePath])]

RECURSIVE PlanLoop(_, _, _, _)
PlanLoop(findings, i, maxFixes, st) ==
  IF i > Len(findings) \/ CapReached(st.plan, maxFixes)
  THEN st
  ELSE The({PlanLoop(findings, i + 1, maxFixes, next) :
              next \in {PlanStep(st, findings[i])}})

\* the append after the loop
PlanTail_Skip(st, maxFixes) == st.plan
PlanTail_NoRoomCheck(st, maxFixes) ==
  IF ~st.seenGitignore
  THEN [st.plan EXCEPT !.Actions = Append(@, GitIgnoreEnvAction)]
  ELSE st.plan
PlanTail_IgnoreSeen(st, maxFixes) ==
  IF Len(st.plan.Actions) < maxFixes
  THEN [st.plan EXCEPT !.Actions = Append(@, GitIgnoreEnvAction)]
  ELSE st.plan
PlanTail(st, maxFixes) ==
  IF ~st.seenGitignore /\ Len(st.plan.Actions) < maxFixes
  THEN [st.plan EXCEPT !.Actions = Append(@, GitIgnoreEnvAction)]
  ELSE st.plan

BuildPlan(findings, maxFixes) ==
  The({PlanTail(st, EffectiveMax(maxFixes)) :
         st \in {PlanLoop(findings, 1, EffectiveMax(maxFixes),
                          [plan |-> EmptyPlan, seenGitignore |-> FALSE])}})

(***************************************************************************)
(* Paths (package path/filepath).  A path is a string whose components are *)
(* separated by the token "/".                                             *)
(***************************************************************************)
PathSeparator == "/"

\* index of the first occurrence of token c in s, 0 when there is none
RECURSIVE IndexFrom(_, _, _)
IndexFrom(s, c, i) ==
  IF i > Len(s) THEN 0 ELSE IF s[i] = c THEN i ELSE IndexFrom(s, c, i + 1)

\* the pieces of s[start..] between separators, scanning from i
RECURSIVE SplitFrom(_, _, _, _)
SplitFrom(s, sep, start, i) ==
  IF i > Len(s) THEN <<SubSeq(s, start, Len(s))>>
  ELSE IF s[i] = sep
  THEN <<SubSeq(s, start, i - 1)>> \o The({SplitFrom(s, sep, j, j) : j \in {i + 1}})
  ELSE SplitFrom(s, sep, start, i + 1)

\* strings.Split(s, sep) for a one-token separator
Split(s, sep) == The({SplitFrom(v, sep, 1, 1) : v \in {s}})

\* strings.Join(parts, sep)
RECURSIVE JoinFrom(_, _, _)
JoinFrom(parts, sep, i) ==
  IF i > Len(parts) THEN <<>>
  ELSE IF i = Len(parts) THEN parts[i]
  ELSE parts[i] \o <<sep>> \o JoinFrom(parts, sep, i + 1)
JoinWith(parts, sep) == The({JoinFrom(v, sep, 1) : v \in {parts}})

\* the component stack of filepath.Clean: ".." removes the component before
\* it, is dropped at the top of a rooted path and kept otherwise
CleanStep(acc, c, rooted) ==
  IF c = <<"..">>
  THEN IF acc # <<>> /\ acc[Len(acc)] # <<"..">> THEN SubSeq(acc, 1, Len(acc) - 1)
       ELSE IF rooted THEN acc
       ELSE Append(acc, c)
  ELSE Append(acc, c)

RECURSIVE CleanComps(_, _, _, _)
CleanComps(comps, i, acc, rooted) ==
  IF i > Len(comps) THEN acc
  ELSE The({CleanComps(comps, i + 1, next, rooted) :
              next \in {CleanStep(acc, comps[i], rooted)}})

\* filepath.Clean
IsRooted(s) == s # <<>> /\ s[1] = PathSeparator
CleanOf(v) ==
  The({IF IsRooted(v) THEN <<PathSeparator>> \o out
       ELSE IF out = <<>> THEN <<".">> ELSE out :
         out \in {JoinWith(The({CleanComps(comps, 1, <<>>, IsRooted(v)) :
                     comps \in {SelectSeq(Split(v, PathSeparator),
                                          LAMBDA c : c # <<>> /\ c # <<".">>)}}),
                   PathSeparator)}})
Clean(s) == The({CleanOf(v) : v \in {s}})

\* filepath.Join of two non-empty elements
Join(a, b) == Clean(a \o <<PathSeparator>> \o b)

\* the directory that holds path p (p is clean and rooted)
Dir(p) ==
  The({<<PathSeparator>> \o JoinWith(SubSeq(comps, 1, Len(comps) - 1), PathSeparator) :
         comps \in {SelectSeq(Split(p, PathSeparator), LAMBDA c : c # <<>>)}})

(***************************************************************************)
(* File system.  fs maps every existing path to its node: a directory, a   *)
(* regular file with its content, or a symbolic link with its target.      *)
(* os.ReadFile and os.WriteFile follow a symbolic link at the path.        *)
(***************************************************************************)
DirNode == [kind |-> "dir"]
\* pad counts the bytes of opaque (binary) content the model does not spell out
FileNode(data) == [kind |-> "file", data |-> data, pad |-> 0]
BlobNode(n) == [kind |-> "file", data |-> <<>>, pad |-> n]
NoNode == [kind |-> "none"]

\* fs with node n at path p (no change when n is NoNode)
Put(fs, p, n) ==
  IF n = NoNode THEN fs
  ELSE [x \in DOMAIN fs \cup {p} |-> IF x = p THEN n ELSE fs[x]]
LinkNode(to) == [kind |-> "link", to |-> to]

ErrNone == "ok"
ErrNotExist == "ENOENT"
ErrIsDir == "EISDIR"
ErrNotDir == "ENOTDIR"

\* the path an open(2) of p reaches: a symbolic link is followed
Resolve(fs, p) ==
  IF p \in DOMAIN fs /\ fs[p].kind = "link" THEN fs[p].to ELSE p

\* the error of opening the directory that holds q
ParentErr(fs, q) ==
  The({IF d \notin DOMAIN fs THEN ErrNotExist
       ELSE IF fs[d].kind # "dir" THEN ErrNotDir
       ELSE ErrNone : d \in {Dir(q)}})

\* os.ReadFile
ReadAt(fs, q, perr) ==
  IF perr # ErrNone THEN [err |-> perr, data |-> <<>>]
  ELSE IF q \notin DOMAIN fs THEN [err |-> ErrNotExist, data |-> <<>>]
  ELSE IF fs[q].kind # "file" THEN [err |-> ErrIsDir, data |-> <<>>]
  ELSE [err |-> ErrNone, data |-> fs[q].data]
ReadFile(fs, p) ==
  The({ReadAt(fs, q, The({e : e \in {ParentErr(fs, q)}})) : q \in {Resolve(fs, p)}})

\* os.IsNotExist
IsNotExist(err) == err = ErrNotExist

\* os.WriteFile: creates or truncates the file the path reaches
WriteAt(fs, q, data) ==
  IF ParentErr(fs, q) # ErrNone THEN [err |-> ParentErr(fs, q), fs |-> fs]
  ELSE IF q \in DOMAIN fs /\ fs[q].kind # "file" THEN [err |-> ErrIsDir, fs |-> fs]
  ELSE [err |-> ErrNone,
        fs |-> [x \in DOMAIN fs \cup {q} |-> IF x = q THEN FileNode(data) ELSE fs[x]]]
WriteFile(fs, p, data) ==
  The({WriteAt(fs, q, d) : q \in {Resolve(fs, p)}, d \in {data}})

(***************************************************************************)
(* Patch Applier (package patch).                                          *)
(***************************************************************************)
DQ == "\""
SQ == "'"
EnvLine == ".env"
PlaceholderBody == "${SECRET_FROM_ENV}"
Placeholder == <<DQ, PlaceholderBody, DQ>>
MinBareLen == 12

ReasonInvalidPath == "manual fix required: invalid target path"
ReasonNoMatch == "manual fix required: no safe redaction match found"
ReasonUnsupported == "manual fix required: unsupported action"

\* the number of characters an atom stands for
TokLen(c) ==
  CASE c = "API_TOKEN" -> 9
    [] c = "NAME" -> 4
    [] c = "supersecretvalue" -> 16
    [] c = "abc1234567890" -> 13
    [] c = "short" -> 5
    [] c = EnvLine -> 4
    [] OTHER -> 1

\* [A-Z0-9_\-\.] under (?i)
IsIdentTok(c) ==
  c \in {"API_TOKEN", "NAME", "supersecretvalue", "abc1234567890", "short", "_", EnvLine}
\* [A-Za-z0-9_\-]
IsBareTok(c) ==
  c \in {"API_TOKEN", "NAME", "supersecretvalue", "abc1234567890", "short", "_"}
\* the atom contains one of token|secret|password|apikey|api_key under (?i)
HasKeyword(c) == c \in {"API_TOKEN", "supersecretvalue"}
\* [ \t]
IsBlank(c) == c = SP
\* [:=]
IsAssign(c) == c \in {"=", ":"}

InClass(c, class) ==
  CASE class = "blank" -> IsBlank(c)
    [] class = "ident" -> IsIdentTok(c)
    [] class = "bare" -> IsBareTok(c)

\* the first index >= i whose token is not of the class, Len(s) + 1 when
\* there is none: the end of a greedy character-class repetition
RECURSIVE SkipWhile(_, _, _)
SkipWhile(s, i, class) ==
  IF i <= Len(s) /\ InClass(s[i], class) THEN SkipWhile(s, i + 1, class) ELSE i

RECURSIVE RunLen(_, _, _)
RunLen(s, i, j) == IF i >= j THEN 0 ELSE TokLen(s[i]) + RunLen(s, i + 1, j)

\* strings.ReplaceAll(s, "\r\n", "\n")
RECURSIVE ReplaceFrom(_, _)
ReplaceFrom(s, i) ==
  IF i > Len(s) THEN <<>>
  ELSE IF i < Len(s) /\ s[i] = CR /\ s[i + 1] = LF
  THEN <<LF>> \o The({ReplaceFrom(s, j) : j \in {i + 2}})
  ELSE <<s[i]>> \o The({ReplaceFrom(s, j) : j \in {i + 1}})
ReplaceCRLF(s) == The({ReplaceFrom(v, 1) : v \in {s}})

\* the lines both file operations work on
Lines(s) == Split(ReplaceCRLF(s), LF)

\* secretAssignPattern.FindStringSubmatch: the pattern is anchored at both
\* ends and its pieces cannot overlap, so the match is unique.  Group 1 is
\* line[1 .. valStart-1], group 3 is line[valStart .. valEnd], group 4 the rest.

\* [ \t]*[A-Z0-9_\-\.]*?(keyword)[A-Z0-9_\-\.]* : the index after the maximal run
\* of identifier characters that follows the leading blanks, 0 when the run
\* holds no keyword
MatchIdent(line) ==
  The({The({IF \E k \in a..(e - 1) : HasKeyword(line[k]) THEN e ELSE 0 :
              e \in {SkipWhile(line, a, "ident")}}) :
         a \in {SkipWhile(line, 1, "blank")}})

\* (?:[ \t]*[:=][ \t]*|[ \t]+) from identEnd: the index after the separator,
\* 0 when there is none
MatchSeparator(line, identEnd) ==
  The({IF b <= Len(line) /\ IsAssign(line[b]) THEN SkipWhile(line, b + 1, "blank")
       ELSE IF b > identEnd THEN b
       ELSE 0 : b \in {SkipWhile(line, identEnd, "blank")}})

\* ("[^"]*"|'[^']*'|[A-Za-z0-9_\-]{12,}) at valStart: the index of the last
\* token of the value, 0 when there is none
MatchValue_AnyBare(line, valStart) ==
  IF valStart > Len(line) THEN 0
  ELSE IF line[valStart] \in {DQ, SQ} THEN IndexFrom(line, line[valStart], valStart + 1)
  ELSE The({IF e > valStart THEN e - 1 ELSE 0 :
              e \in {SkipWhile(line, valStart, "bare")}})
MatchValue(line, valStart) ==
  IF valStart > Len(line) THEN 0
  ELSE IF line[valStart] \in {DQ, SQ} THEN IndexFrom(line, line[valStart], valStart + 1)
  ELSE The({IF RunLen(line, valStart, e) >= MinBareLen THEN e - 1 ELSE 0 :
              e \in {SkipWhile(line, valStart, "bare")}})

NoMatch == [ok |-> FALSE, valStart |-> 0, valEnd |-> 0]

MatchFromSeparator(line, valStart) ==
  IF valStart = 0 THEN NoMatch
  ELSE The({IF valEnd = 0 THEN NoMatch
            ELSE [ok |-> TRUE, valStart |-> valStart, valEnd |-> valEnd] :
              valEnd \in {MatchValue(line, valStart)}})

MatchFromIdent(line, identEnd) ==
  IF identEnd = 0 THEN NoMatch
  ELSE The({MatchFromSeparator(line, valStart) :
              valStart \in {MatchSeparator(line, identEnd)}})

MatchSecretAssign(line) ==
  The({MatchFromIdent(v, identEnd) : v \in {line}, identEnd \in {MatchIdent(line)}})

\* redactLine
Redacted(line, m) ==
  IF ~m.ok THEN [ok |-> FALSE, repl |-> <<>>]
  ELSE [ok |-> TRUE,
        repl |-> SubSeq(line, 1, m.valStart - 1) \o Placeholder
                 \o SubSeq(line, m.valEnd + 1, Len(line))]
redactLine(line) == The({Redacted(line, m) : m \in {MatchSecretAssign(line)}})

\* the first line of lines[i..] that redactLine accepts, 0 when none does
RECURSIVE FirstMatch(_, _)
FirstMatch(lines, i) ==
  IF i > Len(lines) THEN 0
  ELSE IF redactLine(lines[i]).ok THEN i
  ELSE FirstMatch(lines, i + 1)

\* the line redactSecretLine rewrites: the declared one when it matches,
\* else the first matching one, 0 when no line matches
TargetLine_FirstOnly(lines, lineStart) == FirstMatch(lines, 1)
TargetLine(lines, lineStart) ==
  IF lineStart > 0 /\ lineStart <= Len(lines) /\ redactLine(lines[lineStart]).ok
  THEN lineStart
  ELSE FirstMatch(lines, 1)

RedactAt(fs, path, lines, idx) ==
  IF idx = 0 THEN [applied |-> FALSE, err |-> ErrNone, fs |-> fs]
  ELSE The({[applied |-> TRUE, err |-> w.err, fs |-> w.fs] :
              w \in {WriteFile(fs, path,
                       JoinWith([lines EXCEPT ![idx] = redactLine(lines[idx]).repl], LF))}})

RedactRead(fs, path, lineStart, r) ==
  IF r.err # ErrNone
  THEN [applied |-> FALSE, fs |-> fs,
        err |-> IF IsNotExist(r.err) THEN ErrNone ELSE r.err]
  ELSE The({The({RedactAt(fs, path, lines, idx) : idx \in {TargetLine(lines, lineStart)}}) :
              lines \in {Lines(r.data)}})

\* redactSecretLine: [applied, err, fs]
redactSecretLine(fs, path, lineStart) ==
  The({RedactRead(fs, path, lineStart, r) : r \in {ReadFile(fs, path)}})

EnvIgnored_Exact(lines) == \E i \in 1..Len(lines) : lines[i] = <<EnvLine>>
EnvIgnored(lines) == \E i \in 1..Len(lines) : TrimSpace(lines[i]) = <<EnvLine>>

AppendEnv_NoNewline(fs, path, s) ==
  IF EnvIgnored(Lines(s)) THEN [applied |-> FALSE, err |-> ErrNone, fs |-> fs]
  ELSE The({[applied |-> TRUE, err |-> w.err, fs |-> w.fs] :
              w \in {WriteFile(fs, path, s \o <<EnvLine, LF>>)}})
AppendEnv(fs, path, s) ==
  IF EnvIgnored(Lines(s)) THEN [applied |-> FALSE, err |-> ErrNone, fs |-> fs]
  ELSE The({[applied |-> TRUE, err |-> w.err, fs |-> w.fs] :
              w \in {WriteFile(fs, path,
                       (IF s # <<>> /\ ~HasSuffix(s, <<LF>>) THEN s \o <<LF>> ELSE s)
                       \o <<EnvLine, LF>>)}})

EnsureRead(fs, path, r) ==
  IF r.err # ErrNone /\ ~IsNotExist(r.err)
  THEN [applied |-> FALSE, err |-> r.err, fs |-> fs]
  ELSE AppendEnv(fs, path, IF r.err = ErrNone THEN r.data ELSE <<>>)

\* ensureEnvIgnored: [applied, err, fs]
ensureEnvIgnored(fs, path) ==
  The({EnsureRead(fs, path, r) : r \in {ReadFile(fs, path)}})

\* the boundary test of a redaction target
InsideRoot(target, root) ==
  HasPrefix(target, root \o <<PathSeparator>>) \/ target = root

ManualOf(reason, action) ==
  [Reason |-> reason, Title |-> action.Description, File |-> action.FilePath]

\* the outcome r of a file operation recorded in st = [fs, Applied, Manual, err]
Record_Prepend(st, action, r, orManual) ==
  IF r.err # ErrNone THEN [st EXCEPT !.err = r.err, !.fs = r.fs]
  ELSE IF r.applied THEN [st EXCEPT !.fs = r.fs, !.Applied = <<action>> \o @]
  ELSE IF orManual THEN [st EXCEPT !.Manual = Append(@, ManualOf(ReasonNoMatch, action))]
  ELSE st
Record(st, action, r, orManual) ==
  IF r.err # ErrNone THEN [st EXCEPT !.err = r.err, !.fs = r.fs]
  ELSE IF r.applied THEN [st EXCEPT !.fs = r.fs, !.Applied = Append(@, action)]
  ELSE IF orManual THEN [st EXCEPT !.Manual = Append(@, ManualOf(ReasonNoMatch, action))]
  ELSE st

RedactStep_Silent(st, root, action, target) ==
  IF ~InsideRoot(target, root)
  THEN st
  ELSE The({Record(st, action, r, TRUE) :
              r \in {redactSecretLine(st.fs, target, action.LineStart)}})
RedactStep(st, root, action, target) ==
  IF ~InsideRoot(target, root)
  THEN [st EXCEPT !.Manual = Append(@, ManualOf(ReasonInvalidPath, action))]
  ELSE The({Record(st, action, r, TRUE) :
              r \in {redactSecretLine(st.fs, target, action.LineStart)}})

\* one iteration of ApplyPlan's loop
ApplyStep(st, root, action) ==
  IF action.Type = FixGitIgnoreEnv
  THEN The({Record(st, action, r, FALSE) :
              r \in {ensureEnvIgnored(st.fs, Join(root, GitignorePath))}})
  ELSE IF action.Type = FixSecretRedaction
  THEN The({RedactStep(st, root, action, target) :
              target \in {Join(root, Clean(action.FilePath))}})
  ELSE [st EXCEPT !.Manual = Append(@, ManualOf(ReasonUnsupported, action))]

RECURSIVE ApplyLoop(_, _, _, _)
ApplyLoop(st, root, actions, i) ==
  IF i > Len(actions) \/ st.err # ErrNone THEN st
  ELSE The({ApplyLoop(next, root, actions, i + 1) :
              next \in {ApplyStep(st, root, actions[i])}})

\* ApplyPlan: [fs, Applied, Manual, err]
ApplyPlan(fs, repoDir, p) ==
  The({ApplyLoop([fs |-> fs, Applied |-> <<>>, Manual |-> p.Manual, err |-> ErrNone],
                 root, p.Actions, 1) : root \in {Clean(repoDir)}})

(***************************************************************************)
(* Places of the pipeline in the file system.                              *)
(***************************************************************************)
TempDir == <<"/", "tmp">>
NowNano == "1700000000000000001"
\* workDir := filepath.Join(os.TempDir(), "argus-pr", <UnixNano>)
WorkDir == Join(Join(TempDir, <<"argus-pr">>), <<NowNano>>)
\* repoDir := filepath.Join(workDir, "repo")
RepoDir == Join(WorkDir, <<"repo">>)

\* a file of the host that is no part of any working copy
OutsideFile == <<"/", "srv", "/", "api.env">>
OutsideNew == <<"/", "srv", "/", "new">>
OutsideContent == <<"API_TOKEN", "=", SQ, "supersecretvalue", SQ, LF>>

\* the host before any request: the temporary directory and the outside file
HostFs ==
  Put(Put(Put([x \in {<<"/">>} |-> DirNode], TempDir, DirNode),
          <<"/", "srv">>, DirNode), OutsideFile, FileNode(OutsideContent))

\* the host with an empty working copy at RepoDir
BaseFs ==
  Put(Put(Put(HostFs, Join(TempDir, <<"argus-pr">>), DirNode), WorkDir, DirNode),
      RepoDir, DirNode)

(***************************************************************************)
(* Inputs of the planner.                                                  *)
(***************************************************************************)
FindingSamples ==
  { [Tool |-> <<"gitleaks">>, Title |-> <<"Secret", SP, "detected">>,
     FilePath |-> <<"app.env">>, LineStart |-> 1],
    [Tool |-> <<SP, "Gitleaks", SP>>, Title |-> <<"generic-api-key">>,
     FilePath |-> <<>>, LineStart |-> 0],
    [Tool |-> <<SP, "Gitleaks">>, Title |-> <<"generic-api-key">>,
     FilePath |-> <<"cfg.yaml">>, LineStart |-> 7],
    [Tool |-> <<"semgrep">>, Title |-> <<"Potential", SP, "SQL", SP, "injection">>,
     FilePath |-> <<"app", "/", "main.go">>, LineStart |-> 44],
    [Tool |-> <<"trivy">>, Title |-> <<"hardcoded", SP, "SECRET">>,
     FilePath |-> <<SP, SP>>, LineStart |-> 3],
    [Tool |-> <<"semgrep">>, Title |-> <<SP, "Hardcoded", SP, "Secret", SP>>,
     FilePath |-> <<SP, "..", "/", "out.env">>, LineStart |-> 2],
    [Tool |-> <<"policy">>, Title |-> <<"Ensure", SP, ".env", SP, "ignored">>,
     FilePath |-> <<".gitignore">>, LineStart |-> 0] }

(***************************************************************************)
(* Inputs of the applier: working copies and plans.                        *)
(***************************************************************************)
QuotedLine == <<"API_TOKEN", "=", SQ, "supersecretvalue", SQ>>
BareLine == <<"API_TOKEN", "=", "abc1234567890">>
ShortLine == <<"API_TOKEN", "=", "short">>
PlainLine == <<"NAME", SP, "=", SP, "short">>
RedactedLine == <<"API_TOKEN", "=">> \o Placeholder

GitignoreNodes ==
  { NoNode,
    FileNode(<<"node_modules/", LF>>),
    FileNode(<<"node_modules/">>),
    FileNode(<<SP, EnvLine, CR, LF, "node_modules/", CR, LF>>),
    DirNode,
    LinkNode(OutsideFile),
    LinkNode(OutsideNew) }

EnvFileNodes ==
  { NoNode,
    FileNode(QuotedLine \o <<LF>>),
    FileNode(PlainLine \o <<LF>> \o BareLine \o <<LF>>),
    FileNode(ShortLine \o <<LF>>),
    FileNode(QuotedLine \o <<CR, CR, LF>>),
    FileNode(RedactedLine \o <<LF>>),
    FileNode(QuotedLine \o <<CR, LF>> \o PlainLine \o <<CR, LF>>),
    FileNode(QuotedLine \o <<LF>> \o BareLine \o <<LF>>),
    LinkNode(OutsideFile),
    DirNode }

WorkingCopy(g, e) ==
  Put(Put(BaseFs, Join(RepoDir, GitignorePath), g), Join(RepoDir, <<"app.env">>), e)

ApplyFsSamples == {WorkingCopy(g, e) : g \in GitignoreNodes, e \in EnvFileNodes}

TraversalPath == <<"..", "/", "..", "/", "..", "/", "..", "/", "srv", "/", "api.env">>

ActionSamples ==
  { GitIgnoreEnvAction,
    SecretRedactionAction(<<"app.env">>, 1),
    SecretRedactionAction(<<".", "/", "app.env">>, 2),
    SecretRedactionAction(TraversalPath, 1),
    SecretRedactionAction(<<"src", "/", "..">>, 1),
    [Type |-> "dependency_bump", FilePath |-> <<"go.mod">>, LineStart |-> 3,
     Description |-> "Bump dependency"] }

ManualSamples ==
  { <<>>,
    <<[Reason |-> ReasonAmbiguous, Title |-> <<"Weak", SP, "TLS">>,
       File |-> <<"deploy.yaml">>]>> }

PlanSamples ==
  {[Actions |-> a, Manual |-> m] : a \in SeqsUpTo(ActionSamples, MaxPlanLen), m \in ManualSamples}

EmptyResult == [Applied |-> <<>>, Manual |-> <<>>, err |-> ErrNone]

(***************************************************************************)
(* Remediation Orchestrator (package pr) and its collaborators.            *)
(***************************************************************************)
SizeCapMB == 350
BytesPerMB == 1048576

\* the paths of f at or below dir
Under(f, dir) ==
  {p \in DOMAIN f : p = dir \/ HasPrefix(p, dir \o <<PathSeparator>>)}

\* os.RemoveAll
RemoveAll(f, dir) == [p \in DOMAIN f \ Under(f, dir) |-> f[p]]

\* os.MkdirAll of the working directory (its parent included)
MkdirAll(f, dir) == Put(Put(f, Dir(dir), DirNode), dir, DirNode)

\* info.Size() of a regular file
FileSize(node) == RunLen(node.data, 1, Len(node.data) + 1) + node.pad

RECURSIVE SumSizes(_, _)
SumSizes(f, S) ==
  IF S = {} THEN 0
  ELSE The({FileSize(f[p]) + The({SumSizes(f, rest) : rest \in {S \ {p}}}) :
              p \in {CHOOSE x \in S : TRUE}})

\* the sum filepath.Walk accumulates: regular files only, links not followed
WalkSize(f, dir) ==
  The({SumSizes(f, S) : S \in {{p \in Under(f, dir) : f[p].kind = "file"}}})

\* enforceSizeCap: TRUE when the clone is over the cap
OverSizeCap_RoundedDown(f, dir, maxMB) == WalkSize(f, dir) \div BytesPerMB > maxMB
OverSizeCap(f, dir, maxMB) == WalkSize(f, dir) > maxMB * BytesPerMB

\* the repos table
GitHubPrefix == <<"https:", "/", "/", "github.com", "/">>
GitSuffix == <<".git">>
Repos ==
  [id \in {"r1", "r2", "r3", "r4"} |->
     CASE id = "r1" -> GitHubPrefix \o <<"octo", "/", "app", ".git">>
       [] id = "r2" -> <<"http:", "/", "/", "github.com", "/", "octo", "/", "app", ".git">>
       [] id = "r3" -> <<"HTTPS:", "/", "/", "GitHub.com", "/", "octo", "/", "app", ".GIT">>
       [] id = "r4" -> GitHubPrefix \o <<"octo", "/", "app">>]
UnknownRepo == "r0"

\* the URL policy of Create
AllowedURL_PrefixOnly(url) == HasPrefix(ToLower(url), GitHubPrefix)
AllowedURL(url) ==
  HasPrefix(ToLower(url), GitHubPrefix) /\ HasSuffix(ToLower(url), GitSuffix)

\* strings.TrimPrefix / strings.TrimSuffix
TrimPrefix(s, p) == IF HasPrefix(s, p) THEN SubSeq(s, Len(p) + 1, Len(s)) ELSE s
TrimSuffix(s, p) == IF HasSuffix(s, p) THEN SubSeq(s, 1, Len(s) - Len(p)) ELSE s

\* githubapp.ParseGitHubURL
BadURL == [ok |-> FALSE, owner |-> <<>>, repo |-> <<>>]
OwnerAndRepo(owner, repo) ==
  IF owner = <<>> \/ repo = <<>> THEN BadURL
  ELSE [ok |-> TRUE, owner |-> owner, repo |-> repo]
ParseGitHubURL(raw) ==
  The({IF Len(parts) < 2 THEN BadURL
       ELSE The({OwnerAndRepo(o, r) : o \in {TrimSpace(parts[1])},
                                      r \in {TrimSuffix(TrimSpace(parts[2]), GitSuffix)}}) :
         parts \in {Split(TrimPrefix(TrimSpace(raw), GitHubPrefix), "/")}})

\* the process environment
EnvSamples ==
  { [GITHUB_APP_ID |-> <<>>, GITHUB_INSTALLATION_ID |-> <<>>, GITHUB_PRIVATE_KEY_PEM |-> <<>>],
    [GITHUB_APP_ID |-> <<"123">>, GITHUB_INSTALLATION_ID |-> <<"456">>,
     GITHUB_PRIVATE_KEY_PEM |-> <<"RSA PRIVATE KEY">>],
    [GITHUB_APP_ID |-> <<SP, "123">>, GITHUB_INSTALLATION_ID |-> <<"456">>,
     GITHUB_PRIVATE_KEY_PEM |-> <<"RSA PRIVATE KEY">>],
    [GITHUB_APP_ID |-> <<"123">>, GITHUB_INSTALLATION_ID |-> <<"456">>,
     GITHUB_PRIVATE_KEY_PEM |-> <<"garbage">>] }

\* githubapp.NewFromEnv succeeds
EnvComplete(e) ==
  /\ TrimSpace(e.GITHUB_APP_ID) # <<>>
  /\ TrimSpace(e.GITHUB_INSTALLATION_ID) # <<>>
  /\ TrimSpace(e.GITHUB_PRIVATE_KEY_PEM) # <<>>

\* strconv.ParseInt(s, 10, 64) succeeds
IsNumeric(s) == Len(s) = 1 /\ s[1] \in {"123", "456"}

\* githubapp.ValidateGitHubAppIDs
ValidIDs_Trimmed(e) ==
  IsNumeric(TrimSpace(e.GITHUB_APP_ID)) /\ IsNumeric(TrimSpace(e.GITHUB_INSTALLATION_ID))
ValidIDs(e) == IsNumeric(e.GITHUB_APP_ID) /\ IsNumeric(e.GITHUB_INSTALLATION_ID)

\* appJWT can parse the key
KeyParses(e) == e.GITHUB_PRIVATE_KEY_PEM = <<"RSA PRIVATE KEY">>

\* the findings table of the repository, most recent first
DbFindingSamples ==
  { <<>>,
    <<[Tool |-> <<"gitleaks">>, Title |-> <<"Secret", SP, "detected">>,
       FilePath |-> <<"app.env">>, LineStart |-> 1]>>,
    <<[Tool |-> <<"gitleaks">>, Title |-> <<"Secret", SP, "detected">>,
       FilePath |-> <<"app.env">>, LineStart |-> 1],
      [Tool |-> <<"semgrep">>, Title |-> <<"Potential", SP, "SQL", SP, "injection">>,
       FilePath |-> <<"app", "/", "main.go">>, LineStart |-> 44],
      [Tool |-> <<"trivy">>, Title |-> <<"Weak", SP, "TLS">>,
       FilePath |-> <<"deploy.yaml">>, LineStart |-> 3]>> }

SyntheticFinding ==
  [Tool |-> <<"policy">>, Title |-> <<"Ensure", SP, ".env", SP, "ignored">>,
   FilePath |-> <<".gitignore">>, LineStart |-> 0]

\* loadFindings: LIMIT max rows, or the synthetic finding
Limit_All(rows, m) == rows
Limit(rows, m) == SubSeq(rows, 1, IF Len(rows) < m THEN Len(rows) ELSE m)
loadFindings(rows, max) ==
  The({IF Len(out) = 0 THEN <<SyntheticFinding>> ELSE out :
         out \in {Limit(rows, IF max <= 0 THEN DefaultMaxFixes ELSE max)}})

\* what a clone of the repository checks out: .gitignore, app.env and a blob
CloneTrees ==
  { [gitignore |-> NoNode, env |-> NoNode],
    [gitignore |-> FileNode(<<"node_modules/", LF>>), env |-> FileNode(QuotedLine \o <<LF>>)],
    [gitignore |-> FileNode(<<EnvLine, LF>>), env |-> LinkNode(OutsideFile)],
    [gitignore |-> DirNode, env |-> FileNode(ShortLine \o <<LF>>)] }
BlobSizes == {0, SizeCapMB * BytesPerMB, SizeCapMB * BytesPerMB + 1}

\* the tree cloneRepo leaves at repoDir
CloneInto(f, repoDir, tree, blob) ==
  Put(Put(Put(Put(f, repoDir, DirNode),
              Join(repoDir, GitignorePath), tree.gitignore),
          Join(repoDir, <<"app.env">>), tree.env),
      Join(repoDir, <<"blob.bin">>), IF blob = 0 THEN NoNode ELSE BlobNode(blob))

\* patch.LoadDiff: git diff reports the tracked paths whose node differs
\* from the committed one (a new untracked file is not reported)
DiffPaths == <<GitignorePath, <<"app.env">>, <<"blob.bin">>>>
RECURSIVE DiffFrom(_, _, _, _)
Changed(committed, f, p) ==
  p \in DOMAIN committed /\ (p \notin DOMAIN f \/ f[p] # committed[p])
DiffFrom(committed, f, repoDir, i) ==
  IF i > Len(DiffPaths) THEN <<>>
  ELSE The({IF Changed(committed, f, p) THEN <<"diff --git">> \o DiffPaths[i] \o <<LF>>
            ELSE <<>> : p \in {Join(repoDir, DiffPaths[i])}})
       \o DiffFrom(committed, f, repoDir, i + 1)
LoadDiff(committed, f, repoDir) == DiffFrom(committed, f, repoDir, 1)

Sentinel == <<"# No safe automatic changes available", LF>>

\* the substitution for a blank diff
DiffOrSentinel_Raw(d) == d
DiffOrSentinel(d) == The({IF TrimSpace(v) = <<>> THEN Sentinel ELSE v : v \in {d}})

NowUnix == "1700000000"
BranchName == <<"argus/fix-", NowUnix>>
DefaultTitle == <<"Argus: Fix findings">>

\* nullIfEmpty: NULL is the empty string of the model
nullIfEmpty(v) == IF TrimSpace(v) = <<>> THEN <<>> ELSE v

ZeroResponse == [Mode |-> "", Diff |-> <<>>, PRURL |-> <<>>, Branch |-> <<>>]
NoError == ""

Requests ==
  [RepoID : DOMAIN Repos \cup {UnknownRepo}, Title : {<<>>},
   BaseBranch : {<<>>, <<"develop">>}, Confirm : BOOLEAN, MaxFixes : 0..MaxCap]

ZeroLocals ==
  [repoURL |-> <<>>, diffText |-> <<>>, mode |-> "", prURL |-> <<>>, branch |-> <<>>,
   token |-> <<>>, owner |-> <<>>, repoName |-> <<>>, base |-> <<>>, sha |-> <<>>]

EmptyRemote == [refs |-> {}, pushed |-> {}, pulls |-> <<>>]

\* the commits of the remote repository.  git clone --depth 1 checks out the
\* head of the default branch, ClonedHead; a branch of the remote can be
\* behind it, at it, ahead of it (it advanced after the clone) or aside of it
CommitBehind == <<"c0">>
ClonedHead == <<"c1">>
CommitAhead == <<"c2">>
CommitAside == <<"d1">>
NewCommit == <<"n1">>

ParentOf(c) ==
  CASE c = ClonedHead -> CommitBehind
    [] c = CommitAhead -> ClonedHead
    [] c = CommitAside -> CommitBehind
    [] c = NewCommit -> ClonedHead
    [] OTHER -> <<>>

\* a is c or an ancestor of c
RECURSIVE IsAncestor(_, _)
IsAncestor(a, c) == c # <<>> /\ (a = c \/ IsAncestor(a, ParentOf(c)))

\* the commits GET /git/ref/heads/{base} can answer with: the default branch
\* is where the clone found it or further; a named branch is anywhere
HeadsOf(baseBranch) ==
  IF TrimSpace(baseBranch) = <<>>
  THEN {ClonedHead, CommitAhead}
  ELSE {CommitBehind, ClonedHead, CommitAhead, CommitAside}

\* git commit and git push HEAD:branch in the clone: the tip that is pushed
\* and its parent
PushedTip(nothing) == IF nothing THEN ClonedHead ELSE NewCommit

\* the wall clock, in nanoseconds since the second NowUnix, and its readings:
\* time.Now().UnixNano() and time.Now().Unix()
MaxSeconds == 1
MaxNanos == 1
NanosPerSecond == 1000000000
Epoch == 0
UnixNano(t) == t
Unix(t) == t \div NanosPerSecond

\* the work directory and the branch of a request that reads the clock at t
WorkDirAt(t) == Join(TempDir, <<"argus-pr", "/", ToString(UnixNano(t))>>)
BranchAt(t) == <<"argus/fix-", ToString(Unix(t))>>

\* the requests of the two-request runs
Procs == {1, 2}
ZeroRq == [pc |-> "idle", workDir |-> <<>>, branch |-> <<>>, err |-> NoError]

VARIABLES findings, maxFixes, plan, plan1, planPc, fs, fs0, fs1, result, result1,
          applyPc, pc, req, env, dbFindings, cr, deferred, calls, prs, remote, ret, http,
          bearer, cancelled, hung, inflight, now, rq, tmp, heads,
          queue, jobs, found, wpc, msg, expired, workRoot, taken

planVars == <<findings, maxFixes, plan, plan1, planPc>>
applyVars == <<fs, fs0, fs1, result, result1, applyPc>>
ctxVars == <<cancelled, hung, inflight>>
pairVars == <<now, rq, tmp, heads>>
workerVars == <<queue, jobs, found, wpc, msg, expired, workRoot, taken>>
createVars == <<pc, req, env, dbFindings, cr, deferred, calls, prs, remote, ret, http,
                bearer, ctxVars, pairVars>>
vars == <<findings, maxFixes, plan, plan1, planPc, fs, fs0, fs1, result, result1, applyPc,
          pc, req, env, dbFindings, cr, deferred, calls, prs, remote, ret, http,
          bearer, cancelled, hung, inflight, now, rq, tmp, heads,
          queue, jobs, found, wpc, msg, expired, workRoot, taken>>

NoReturn == [resp |-> ZeroResponse, err |-> NoError]
NoHttp == [status |-> 0, body |-> ZeroResponse, error |-> NoError]
NoRequest ==
  [RepoID |-> UnknownRepo, Title |-> <<>>, BaseBranch |-> <<>>, Confirm |-> FALSE,
   MaxFixes |-> 0]
NoEnv ==
  [GITHUB_APP_ID |-> <<>>, GITHUB_INSTALLATION_ID |-> <<>>, GITHUB_PRIVATE_KEY_PEM |-> <<>>]

\* the request context is live, the remote answers and no git command is
\* waiting for it
CtxIdle == cancelled = FALSE /\ hung = FALSE /\ inflight = FALSE

\* no pair of concurrent requests is running
PairIdle ==
  /\ now = Epoch /\ rq = [i \in Procs |-> ZeroRq]
  /\ tmp = [w \in {} |-> 0] /\ heads = {}

\* the scan worker is not running: no job exists and nothing is queued
NoMsg == [JobID |-> "", RepoID |-> ""]
WorkerIdle ==
  /\ queue = <<>> /\ jobs = [j \in {} |-> 0] /\ found = {} /\ wpc = "off"
  /\ msg = NoMsg /\ expired = FALSE /\ workRoot = FALSE /\ taken = {}

\* no request is in progress
CreateIdle ==
  /\ pc = "idle" /\ req = NoRequest /\ env = NoEnv /\ dbFindings = <<>>
  /\ cr = ZeroLocals /\ deferred = FALSE /\ calls = <<>> /\ prs = <<>>
  /\ remote = EmptyRemote /\ ret = NoReturn /\ http = NoHttp
  /\ bearer = <<>>
  /\ CtxIdle
  /\ PairIdle
  /\ WorkerIdle

\* the applier is not in use
ApplyIdle ==
  /\ fs = HostFs /\ fs0 = HostFs /\ fs1 = HostFs
  /\ result = EmptyResult /\ result1 = EmptyResult
  /\ applyPc = "idle"

(***************************************************************************)
(* The planner on its own: BuildPlan applied to every input.               *)
(***************************************************************************)
PlanInit ==
  /\ findings \in SeqsUpTo(FindingSamples, MaxFindings)
  /\ maxFixes \in 0..MaxCap
  /\ plan = EmptyPlan /\ plan1 = EmptyPlan
  /\ planPc = "input"
  /\ ApplyIdle
  /\ CreateIdle

CallBuildPlan ==
  /\ planPc = "input"
  /\ \E p \in {BuildPlan(findings, maxFixes)} : plan' = p /\ plan1' = p
  /\ planPc' = "planned"
  /\ UNCHANGED <<findings, maxFixes>>
  /\ UNCHANGED applyVars
  /\ UNCHANGED <<createVars, workerVars>>

\* a second call with the same arguments, made while the first plan is still
\* held by the caller; plan1 keeps the first result
CallBuildPlanAgain_Accumulating ==
  /\ planPc = "planned"
  /\ plan' = PlanTail(PlanLoop(findings, 1, EffectiveMax(maxFixes),
                               [plan |-> plan, seenGitignore |-> FALSE]),
                      EffectiveMax(maxFixes))
  /\ planPc' = "replanned"
  /\ UNCHANGED <<findings, maxFixes, plan1>>
  /\ UNCHANGED applyVars
  /\ UNCHANGED <<createVars, workerVars>>
CallBuildPlanAgain ==
  /\ planPc = "planned"
  /\ plan' = BuildPlan(findings, maxFixes)
  /\ planPc' = "replanned"
  /\ UNCHANGED <<findings, maxFixes, plan1>>
  /\ UNCHANGED applyVars
  /\ UNCHANGED <<createVars, workerVars>>

PlanNext == CallBuildPlan \/ CallBuildPlanAgain

SpecPlan == PlanInit /\ [][PlanNext]_vars

(***************************************************************************)
(* The applier on its own: ApplyPlan run on a working copy, and run again  *)
(* with the same plan on the working copy the first run left.              *)
(***************************************************************************)
ApplyInit ==
  /\ findings = <<>> /\ maxFixes = 0
  /\ plan \in PlanSamples /\ plan1 = EmptyPlan
  /\ planPc = "given"
  /\ fs \in ApplyFsSamples
  /\ fs0 = fs /\ fs1 = fs
  /\ result = EmptyResult /\ result1 = EmptyResult
  /\ applyPc = "ready"
  /\ CreateIdle

ResultOf(r) == [Applied |-> r.Applied, Manual |-> r.Manual, err |-> r.err]

CallApplyPlan ==
  /\ applyPc = "ready"
  /\ \E r \in {ApplyPlan(fs, RepoDir, plan)} :
        /\ fs' = r.fs
        /\ fs1' = r.fs
        /\ result' = ResultOf(r)
        /\ result1' = ResultOf(r)
  /\ applyPc' = "applied"
  /\ UNCHANGED <<fs0>>
  /\ UNCHANGED planVars
  /\ UNCHANGED <<createVars, workerVars>>

CallApplyPlanAgain ==
  /\ applyPc = "applied"
  /\ \E r \in {ApplyPlan(fs, RepoDir, plan)} :
        /\ fs' = r.fs
        /\ result' = ResultOf(r)
  /\ applyPc' = "reapplied"
  /\ UNCHANGED <<fs0, fs1, result1>>
  /\ UNCHANGED planVars
  /\ UNCHANGED <<createVars, workerVars>>

ApplyNext == CallApplyPlan \/ CallApplyPlanAgain

SpecApply == ApplyInit /\ [][ApplyNext]_vars

(***************************************************************************)
(* Service.Create: one request from the call to the HTTP response.  Every  *)
(* return runs the deferred os.RemoveAll(workDir) once it is scheduled.    *)
(***************************************************************************)
CreateInit ==
  /\ findings = <<>> /\ maxFixes = 0 /\ plan = EmptyPlan /\ plan1 = EmptyPlan
  /\ planPc = "idle"
  /\ ApplyIdle
  /\ pc = "start"
  /\ req \in Requests
  /\ env \in EnvSamples
  /\ dbFindings \in DbFindingSamples
  /\ cr = ZeroLocals /\ deferred = FALSE /\ calls = <<>> /\ prs = <<>>
  /\ remote = EmptyRemote /\ ret = NoReturn /\ http = NoHttp
  /\ bearer = <<>>
  /\ CtxIdle
  /\ PairIdle
  /\ WorkerIdle

\* return resp, err from Create with the file system at f
Return_LeakOnError(resp, e, f) ==
  /\ pc' = "returned"
  /\ ret' = [resp |-> resp, err |-> e]
  /\ fs' = IF deferred /\ e = NoError THEN RemoveAll(f, WorkDir) ELSE f
Return(resp, e, f) ==
  /\ pc' = "returned"
  /\ ret' = [resp |-> resp, err |-> e]
  /\ fs' = IF deferred THEN RemoveAll(f, WorkDir) ELSE f

\* return an error
Fail_Partial(e, f) == Return([ZeroResponse EXCEPT !.Diff = cr.diffText], e, f)
Fail(e, f) == Return(ZeroResponse, e, f)

\* the approval gate: the step after the diff
AfterDiff_Ungated(confirm) == "newFromEnv"
AfterDiff(confirm) == IF confirm THEN "newFromEnv" ELSE "recordPR"

\* go on with the step at next
Goto(next, f) == pc' = next /\ ret' = ret /\ fs' = f

inputVars == <<req, env, dbFindings>>
patchVars == <<maxFixes, plan1, planPc, fs1, result1, applyPc>>

QueryRepo ==
  /\ pc = "start"
  /\ calls' = Append(calls, "db.QueryRow repos")
  /\ \E dbOk \in BOOLEAN :
       /\ cancelled => ~dbOk
       /\ IF ~dbOk \/ req.RepoID \notin DOMAIN Repos
          THEN Fail("repo not found", fs) /\ cr' = cr
          ELSE IF ~AllowedURL(Repos[req.RepoID])
          THEN Fail("only github.com .git repos are supported", fs) /\ cr' = cr
          ELSE Goto("loadFindings", fs) /\ cr' = [cr EXCEPT !.repoURL = Repos[req.RepoID]]
  /\ UNCHANGED <<findings, plan, fs0, result, deferred, prs, remote, http>>
  /\ UNCHANGED <<inputVars, patchVars, ctxVars, pairVars, workerVars, bearer>>

LoadFindings ==
  /\ pc = "loadFindings"
  /\ calls' = Append(calls, "db.Query findings")
  /\ \E dbOk \in BOOLEAN :
       /\ cancelled => ~dbOk
       /\ IF ~dbOk
          THEN Fail("query failed", fs) /\ findings' = findings
          ELSE Goto("mkdir", fs) /\ findings' = loadFindings(dbFindings, req.MaxFixes)
  /\ UNCHANGED <<plan, fs0, result, cr, deferred, prs, remote, http>>
  /\ UNCHANGED <<inputVars, patchVars, ctxVars, pairVars, workerVars, bearer>>

MkWorkDir ==
  /\ pc = "mkdir"
  /\ calls' = Append(calls, "os.MkdirAll")
  /\ \E ok \in BOOLEAN :
       IF ~ok
       THEN Fail("mkdir failed", fs) /\ deferred' = deferred
       ELSE Goto("clone", MkdirAll(fs, WorkDir)) /\ deferred' = TRUE
  /\ UNCHANGED <<findings, plan, fs0, result, cr, prs, remote, http>>
  /\ UNCHANGED <<inputVars, patchVars, ctxVars, pairVars, workerVars, bearer>>

CloneRepo_Retry ==
  /\ pc = "clone"
  /\ \/ /\ calls' = calls \o <<"git clone", "git clone">>
        /\ Fail("git clone failed", fs) /\ fs0' = fs0
     \/ /\ ~cancelled /\ ~hung
        /\ calls' \in {Append(calls, "git clone"), calls \o <<"git clone", "git clone">>}
        /\ \E tree \in CloneTrees, blob \in BlobSizes :
             \E cloned \in {CloneInto(fs, RepoDir, tree, blob)} :
               Goto("sizeCap", cloned) /\ fs0' = cloned
  /\ inflight' = FALSE
  /\ UNCHANGED <<findings, plan, result, cr, deferred, prs, remote, http>>
  /\ UNCHANGED <<inputVars, patchVars, cancelled, hung, pairVars, workerVars, bearer>>
CloneRepo ==
  /\ pc = "clone"
  /\ calls' = Append(calls, "git clone")
  /\ \/ Fail("git clone failed", fs) /\ fs0' = fs0
     \/ /\ ~cancelled /\ ~hung
        /\ \E tree \in CloneTrees, blob \in BlobSizes :
             \E cloned \in {CloneInto(fs, RepoDir, tree, blob)} :
               Goto("sizeCap", cloned) /\ fs0' = cloned
  /\ inflight' = FALSE
  /\ UNCHANGED <<findings, plan, result, cr, deferred, prs, remote, http>>
  /\ UNCHANGED <<inputVars, patchVars, cancelled, hung, pairVars, workerVars, bearer>>

EnforceSizeCap ==
  /\ pc = "sizeCap"
  /\ calls' = Append(calls, "enforceSizeCap")
  /\ IF OverSizeCap(fs, RepoDir, SizeCapMB)
     THEN Fail("repo exceeds size cap", fs)
     ELSE Goto("dryRun", fs)
  /\ UNCHANGED <<findings, plan, fs0, result, cr, deferred, prs, remote, http>>
  /\ UNCHANGED <<inputVars, patchVars, ctxVars, pairVars, workerVars, bearer>>

\* GenerateDryRunDiff, the sentinel and the branch on req.Confirm
GenerateDryRunDiff ==
  /\ pc = "dryRun"
  /\ \E p \in {BuildPlan(findings, req.MaxFixes)} :
     \E r \in {ApplyPlan(fs, RepoDir, p)} :
        /\ plan' = p
        /\ result' = ResultOf(r)
        /\ IF r.err # ErrNone
           THEN /\ calls' = calls \o <<"BuildPlan", "ApplyPlan">>
                /\ Fail(r.err, r.fs) /\ cr' = cr
           ELSE /\ calls' = calls \o <<"BuildPlan", "ApplyPlan", "LoadDiff">>
                /\ \E diffOk \in BOOLEAN :
                     IF ~diffOk
                     THEN Fail("git diff failed", r.fs) /\ cr' = cr
                     ELSE /\ Goto(AfterDiff(req.Confirm), r.fs)
                          /\ cr' = [cr EXCEPT
                                      !.diffText = DiffOrSentinel(LoadDiff(fs0, r.fs, RepoDir)),
                                      !.mode = "dry-run"]
  /\ UNCHANGED <<findings, fs0, deferred, prs, remote, http>>
  /\ UNCHANGED <<inputVars, patchVars, ctxVars, pairVars, workerVars, bearer>>

NewFromEnv ==
  /\ pc = "newFromEnv"
  /\ calls' = Append(calls, "os.Getenv")
  /\ IF ~EnvComplete(env)
     THEN Fail("missing github app env vars", fs)
     ELSE Goto("validateIDs", fs)
  /\ UNCHANGED <<findings, plan, fs0, result, cr, deferred, prs, remote, http>>
  /\ UNCHANGED <<inputVars, patchVars, ctxVars, pairVars, workerVars, bearer>>

ValidateGitHubAppIDs ==
  /\ pc = "validateIDs"
  /\ calls' = Append(calls, "os.Getenv")
  /\ IF ~ValidIDs(env)
     THEN Fail("GITHUB_APP_ID must be numeric", fs)
     ELSE Goto("token", fs)
  /\ UNCHANGED <<findings, plan, fs0, result, cr, deferred, prs, remote, http>>
  /\ UNCHANGED <<inputVars, patchVars, ctxVars, pairVars, workerVars, bearer>>

Outcomes == {"fail", "empty", "ok"}

\* the installation token the provider issues to this request
IssuedToken == <<"ghs_1">>

InstallationToken ==
  /\ pc = "token"
  /\ IF ~KeyParses(env)
     THEN /\ calls' = Append(calls, "appJWT")
          /\ Fail("bad private key", fs) /\ cr' = cr
     ELSE /\ calls' = calls \o <<"appJWT", "POST access_tokens">>
          /\ \E out \in Outcomes :
               /\ hung => out = "fail"
               /\ IF out = "fail" THEN Fail("token exchange failed", fs) /\ cr' = cr
                  ELSE IF out = "empty"
                  THEN Fail("empty installation token", fs) /\ cr' = cr
                  ELSE Goto("parseURL", fs) /\ cr' = [cr EXCEPT !.token = IssuedToken]
  /\ UNCHANGED <<findings, plan, fs0, result, deferred, prs, remote, http>>
  /\ UNCHANGED <<inputVars, patchVars, ctxVars, pairVars, workerVars, bearer>>

ParseURL ==
  /\ pc = "parseURL"
  /\ \E u \in {ParseGitHubURL(cr.repoURL)}, base \in {TrimSpace(req.BaseBranch)} :
        IF ~u.ok
        THEN Fail("invalid github url", fs) /\ cr' = cr
        ELSE /\ Goto(IF base = <<>> THEN "defaultBranch" ELSE "branchSHA", fs)
             /\ cr' = [cr EXCEPT !.owner = u.owner, !.repoName = u.repo, !.base = base]
  /\ UNCHANGED <<findings, plan, fs0, result, deferred, calls, prs, remote, http>>
  /\ UNCHANGED <<inputVars, patchVars, ctxVars, pairVars, workerVars, bearer>>

GetDefaultBranch ==
  /\ pc = "defaultBranch"
  /\ calls' = Append(calls, "GET repo")
  /\ bearer' = Append(bearer, [call |-> "GET repo", token |-> cr.token])
  /\ \E out \in Outcomes :
       /\ hung => out = "fail"
       /\ IF out = "fail" THEN Fail("github api call failed", fs) /\ cr' = cr
          ELSE IF out = "empty" THEN Fail("default branch missing", fs) /\ cr' = cr
          ELSE Goto("branchSHA", fs) /\ cr' = [cr EXCEPT !.base = <<"main">>]
  /\ UNCHANGED <<findings, plan, fs0, result, deferred, prs, remote, http>>
  /\ UNCHANGED <<inputVars, patchVars, ctxVars, pairVars, workerVars>>

GetBranchSHA_Continue ==
  /\ pc = "branchSHA"
  /\ calls' = Append(calls, "GET ref")
  /\ bearer' = Append(bearer, [call |-> "GET ref", token |-> cr.token])
  /\ \E out \in Outcomes :
       /\ hung => out = "fail"
       /\ IF out = "ok" THEN Goto("createRef", fs) /\ cr' = [cr EXCEPT !.sha = ClonedHead]
          ELSE Goto("createRef", fs) /\ cr' = cr
  /\ UNCHANGED <<findings, plan, fs0, result, deferred, prs, remote, http>>
  /\ UNCHANGED <<inputVars, patchVars, ctxVars, pairVars, workerVars>>
GetBranchSHA ==
  /\ pc = "branchSHA"
  /\ calls' = Append(calls, "GET ref")
  /\ bearer' = Append(bearer, [call |-> "GET ref", token |-> cr.token])
  /\ \E out \in Outcomes :
       /\ hung => out = "fail"
       /\ IF out = "fail" THEN Fail("github api call failed", fs) /\ cr' = cr
          ELSE IF out = "empty" THEN Fail("branch SHA missing", fs) /\ cr' = cr
          ELSE /\ Goto("createRef", fs)
               /\ \E sha \in HeadsOf(req.BaseBranch) : cr' = [cr EXCEPT !.sha = sha]
  /\ UNCHANGED <<findings, plan, fs0, result, deferred, prs, remote, http>>
  /\ UNCHANGED <<inputVars, patchVars, ctxVars, pairVars, workerVars>>

CreateRef ==
  /\ pc = "createRef"
  /\ calls' = Append(calls, "POST refs")
  /\ bearer' = Append(bearer, [call |-> "POST refs", token |-> cr.token])
  /\ \E ok \in BOOLEAN :
       /\ hung => ~ok
       /\ IF ~ok
          THEN Fail("github api call failed", fs) /\ remote' = remote
               /\ cr' = [cr EXCEPT !.branch = BranchName]
          ELSE /\ Goto("commitAndPush", fs)
               /\ remote' = [remote EXCEPT !.refs = @ \cup {<<"refs/heads/">> \o BranchName}]
               /\ cr' = [cr EXCEPT !.branch = BranchName]
  /\ UNCHANGED <<findings, plan, fs0, result, deferred, prs, http>>
  /\ UNCHANGED <<inputVars, patchVars, ctxVars, pairVars, workerVars>>

GitCmds ==
  <<"git checkout -b", "git config user.email", "git config user.name",
    "git add -A", "git commit", "git push">>

\* strings.Index for a sequence of tokens: the first place sub occurs in s at
\* or after i, 0 when it does not occur
RECURSIVE IndexOfSeq(_, _, _)
IndexOfSeq(s, sub, i) ==
  IF i + Len(sub) - 1 > Len(s) THEN 0
  ELSE IF SubSeq(s, i, i + Len(sub) - 1) = sub THEN i
  ELSE IndexOfSeq(s, sub, i + 1)

\* the push URL of commitAndPush: strings.Replace(repoURL, "https://", ..., 1)
HttpsScheme == <<"https:", "/", "/">>
AuthURL_Plain(repoURL, token) == repoURL
AuthURL(repoURL, token) ==
  The({IF i = 0 THEN repoURL
       ELSE SubSeq(repoURL, 1, i + Len(HttpsScheme) - 1)
              \o <<"x-access-token:">> \o token \o <<"@">>
              \o SubSeq(repoURL, i + Len(HttpsScheme), Len(repoURL)) :
         i \in {IndexOfSeq(repoURL, HttpsScheme, 1)}})

\* the password the remote reads from the user-info part of a push URL
PushCredential(url) ==
  The({IF i = 0 \/ j = 0 THEN <<>> ELSE SubSeq(url, i + 1, j - 1) :
         i \in {IndexOfSeq(url, <<"x-access-token:">>, 1)},
         j \in {IndexOfSeq(url, <<"@">>, 1)}})

\* commitAndPush: command k fails (0: none does); nothing: the commit exits
\* with "nothing to commit", which the loop passes over.  The remote takes
\* the push only as a fast-forward of the ref, which CreateRef put at cr.sha.  Every command runs
\* under the request context; a push to a remote that never answers ends
\* only when the context is done and the command is killed.
CommitAndPush_Rollback ==
  /\ pc = "commitAndPush"
  /\ \E k \in 1..Len(GitCmds) :
       /\ calls' = calls \o SubSeq(GitCmds, 1, k) \o <<"DELETE ref">>
       /\ bearer' = Append(bearer, [call |-> "DELETE ref", token |-> cr.token])
       /\ Fail("git command failed", fs)
       /\ remote' = [remote EXCEPT !.refs = @ \ {<<"refs/heads/">> \o cr.branch}]
  /\ inflight' = FALSE
  /\ UNCHANGED <<findings, plan, fs0, result, cr, deferred, prs, http>>
  /\ UNCHANGED <<inputVars, patchVars, cancelled, hung, pairVars, workerVars>>
CommitAndPush ==
  /\ pc = "commitAndPush"
  /\ \E k \in 0..Len(GitCmds), nothing \in BOOLEAN :
       /\ nothing => k \in {0, Len(GitCmds)}
       /\ cancelled \/ hung => k # 0
       /\ hung /\ ~cancelled => k # Len(GitCmds)
       /\ ~IsAncestor(cr.sha, PushedTip(nothing)) => k # 0
       /\ calls' = calls \o SubSeq(GitCmds, 1, IF k = 0 THEN Len(GitCmds) ELSE k)
       /\ bearer' = IF k \in {0, Len(GitCmds)}
                    THEN Append(bearer,
                           [call |-> "git push",
                            token |-> PushCredential(AuthURL(cr.repoURL, cr.token))])
                    ELSE bearer
       /\ IF k # 0
          THEN Fail("git command failed", fs) /\ remote' = remote
          ELSE /\ Goto("createPR", fs)
               /\ remote' = [remote EXCEPT !.pushed = @ \cup
                    {[branch |-> cr.branch, at |-> cr.sha, tip |-> PushedTip(nothing),
                      parent |-> ParentOf(PushedTip(nothing)), commit |-> ~nothing]}]
  /\ inflight' = FALSE
  /\ UNCHANGED <<findings, plan, fs0, result, cr, deferred, prs, http>>
  /\ UNCHANGED <<inputVars, patchVars, cancelled, hung, pairVars, workerVars>>

\* buildPRBody and CreatePullRequest
CreatePullRequest ==
  /\ pc = "createPR"
  /\ calls' = Append(calls, "POST pulls")
  /\ LET title == IF TrimSpace(req.Title) = <<>> THEN DefaultTitle ELSE req.Title
         pull == [title |-> title, head |-> cr.branch, base |-> cr.base,
                  manual |-> plan.Manual, diff |-> cr.diffText]
     IN \E out \in {"fail", "unreadable", "nourl", "ok"} :
          /\ hung => out = "fail"
          /\ IF out = "fail"
             THEN Fail("github api call failed", fs) /\ remote' = remote /\ cr' = cr
             ELSE IF out = "unreadable"
             THEN /\ Fail("invalid response body", fs) /\ cr' = cr
                  /\ remote' = [remote EXCEPT !.pulls = Append(@, pull)]
             ELSE /\ Goto("recordPR", fs)
                  /\ remote' = [remote EXCEPT !.pulls = Append(@, pull)]
                  /\ cr' = [cr EXCEPT !.mode = "created",
                              !.prURL = IF out = "ok"
                                        THEN <<"https://github.com/octo/app/pull/1">>
                                        ELSE <<>>]
  /\ bearer' = Append(bearer, [call |-> "POST pulls", token |-> cr.token])
  /\ UNCHANGED <<findings, plan, fs0, result, deferred, prs, http>>
  /\ UNCHANGED <<inputVars, patchVars, ctxVars, pairVars, workerVars>>

\* recordPR and the final return
RecordPR ==
  /\ pc = "recordPR"
  /\ calls' = Append(calls, "db.Exec insert prs")
  /\ \E dbOk \in BOOLEAN :
       /\ cancelled => ~dbOk
       /\ IF ~dbOk
          THEN Fail("insert failed", fs) /\ prs' = prs
          ELSE /\ prs' = Append(prs, [repo_id |-> req.RepoID, status |-> cr.mode,
                                      branch |-> nullIfEmpty(cr.branch),
                                      pr_url |-> nullIfEmpty(cr.prURL),
                                      diff_text |-> cr.diffText])
               /\ Return([Mode |-> cr.mode, Diff |-> cr.diffText, PRURL |-> cr.prURL,
                          Branch |-> cr.branch], NoError, fs)
  /\ UNCHANGED <<findings, plan, fs0, result, cr, deferred, remote, http>>
  /\ UNCHANGED <<inputVars, patchVars, ctxVars, pairVars, workerVars, bearer>>

\* App.createPullRequest after Create has returned
Respond ==
  /\ pc = "returned"
  /\ pc' = "done"
  /\ http' = IF ret.err # NoError
             THEN [status |-> 400, body |-> ZeroResponse, error |-> ret.err]
             ELSE [status |-> 200, body |-> ret.resp, error |-> NoError]
  /\ UNCHANGED <<findings, plan, fs, fs0, result, cr, deferred, calls, prs, remote, ret>>
  /\ UNCHANGED <<inputVars, patchVars, ctxVars, pairVars, workerVars, bearer>>

Next ==
  \/ QueryRepo \/ LoadFindings \/ MkWorkDir \/ CloneRepo \/ EnforceSizeCap
  \/ GenerateDryRunDiff \/ NewFromEnv \/ ValidateGitHubAppIDs \/ InstallationToken
  \/ ParseURL \/ GetDefaultBranch \/ GetBranchSHA \/ CreateRef \/ CommitAndPush
  \/ CreatePullRequest \/ RecordPR \/ Respond

Spec == CreateInit /\ [][Next]_vars

(***************************************************************************)
(* Create under a request context that can end and a remote that may never *)
(* answer.  The router gives every request context a deadline; the client  *)
(* can go away at any time.  The data store calls and the git commands     *)
(* take the context, the provider calls do not: they end at the timeout of *)
(* the HTTP client.  A git command killed on a done context returns from   *)
(* CombinedOutput once every process holding its output pipe has closed    *)
(* it, which git's transport helper, waiting for the remote, need not do.  *)
(***************************************************************************)
CtxRequests == {r \in Requests : r.RepoID = "r1" /\ r.MaxFixes = 1}

CtxInit ==
  /\ findings = <<>> /\ maxFixes = 0 /\ plan = EmptyPlan /\ plan1 = EmptyPlan
  /\ planPc = "idle"
  /\ ApplyIdle
  /\ pc = "start"
  /\ req \in CtxRequests
  /\ env \in EnvSamples
  /\ dbFindings \in DbFindingSamples
  /\ cr = ZeroLocals /\ deferred = FALSE /\ calls = <<>> /\ prs = <<>>
  /\ remote = EmptyRemote /\ ret = NoReturn /\ http = NoHttp
  /\ bearer = <<>>
  /\ cancelled = FALSE
  /\ hung \in BOOLEAN
  /\ inflight = FALSE
  /\ PairIdle
  /\ WorkerIdle

Running == pc \notin {"idle", "returned", "done"}

\* the client goes away: r.Context() is cancelled
Cancel ==
  /\ Running /\ ~cancelled
  /\ cancelled' = TRUE
  /\ UNCHANGED <<hung, inflight, bearer>>
  /\ UNCHANGED <<planVars, applyVars, pairVars, workerVars>>
  /\ UNCHANGED <<pc, req, env, dbFindings, cr, deferred, calls, prs, remote, ret, http>>

\* middleware.Timeout: the deadline of the request context passes
Deadline_Never ==
  /\ FALSE
  /\ UNCHANGED vars
Deadline ==
  /\ Running /\ ~cancelled
  /\ cancelled' = TRUE
  /\ UNCHANGED <<hung, inflight, bearer>>
  /\ UNCHANGED <<planVars, applyVars, pairVars, workerVars>>
  /\ UNCHANGED <<pc, req, env, dbFindings, cr, deferred, calls, prs, remote, ret, http>>

\* exec.Cmd.Start under a live context: git clone or git push is running and
\* waits for the remote
StartCommand ==
  /\ pc \in {"clone", "commitAndPush"} /\ ~inflight /\ ~cancelled
  /\ inflight' = TRUE
  /\ UNCHANGED <<cancelled, hung, bearer>>
  /\ UNCHANGED <<planVars, applyVars, pairVars, workerVars>>
  /\ UNCHANGED <<pc, req, env, dbFindings, cr, deferred, calls, prs, remote, ret, http>>

\* the remote stops answering
Hang ==
  /\ Running /\ ~hung
  /\ hung' = TRUE
  /\ UNCHANGED <<cancelled, inflight, bearer>>
  /\ UNCHANGED <<planVars, applyVars, pairVars, workerVars>>
  /\ UNCHANGED <<pc, req, env, dbFindings, cr, deferred, calls, prs, remote, ret, http>>

CtxNext == Next \/ Cancel \/ Deadline \/ StartCommand \/ Hang

\* the steps that end in bounded time: every step on a remote that answers,
\* and on one that does not, every step but a git command that is waiting
\* for it
BoundedStep ==
  \/ QueryRepo \/ LoadFindings \/ MkWorkDir \/ EnforceSizeCap
  \/ GenerateDryRunDiff \/ NewFromEnv \/ ValidateGitHubAppIDs \/ InstallationToken
  \/ ParseURL \/ GetDefaultBranch \/ GetBranchSHA \/ CreateRef
  \/ CreatePullRequest \/ RecordPR \/ Respond
  \/ ((~hung \/ ~inflight) /\ (CloneRepo \/ CommitAndPush))

SpecCtx ==
  /\ CtxInit /\ [][CtxNext]_vars
  /\ WF_vars(Deadline)
  /\ WF_vars(BoundedStep)

(***************************************************************************)
(* Two confirmed requests for the same repository served at the same time. *)
(* Each runs Create; the steps that touch what the two share are kept: the *)
(* clock, the directory under os.TempDir() and the refs of the remote.     *)
(* tmp maps each work directory that exists to the request whose clone it  *)
(* holds (0: none).                                                        *)
(***************************************************************************)
singleVars ==
  <<pc, req, env, dbFindings, cr, deferred, calls, prs, remote, ret, http, bearer>>

PairInit ==
  /\ findings = <<>> /\ maxFixes = 0 /\ plan = EmptyPlan /\ plan1 = EmptyPlan
  /\ planPc = "idle"
  /\ ApplyIdle
  /\ pc = "idle" /\ req = NoRequest /\ env = NoEnv /\ dbFindings = <<>>
  /\ cr = ZeroLocals /\ deferred = FALSE /\ calls = <<>> /\ prs = <<>>
  /\ remote = EmptyRemote /\ ret = NoReturn /\ http = NoHttp
  /\ bearer = <<>>
  /\ CtxIdle
  /\ WorkerIdle
  /\ now = Epoch
  /\ rq = [i \in Procs |-> [ZeroRq EXCEPT !.pc = "mkdir"]]
  /\ tmp = [w \in {} |-> 0]
  /\ heads = {}

\* the clock advances by a nanosecond or by a second
Tick ==
  /\ \/ now % NanosPerSecond < MaxNanos /\ now' = now + 1
     \/ now \div NanosPerSecond < MaxSeconds /\ now' = now + NanosPerSecond
  /\ UNCHANGED <<rq, tmp, heads>>
  /\ UNCHANGED <<planVars, applyVars, singleVars, ctxVars, workerVars>>

\* os.RemoveAll(workDir) and os.MkdirAll(workDir) on the directories of tmp
RemoveDir(t, w) == [v \in DOMAIN t \ {w} |-> t[v]]
MakeDir(t, w) == [v \in DOMAIN t \cup {w} |-> IF v \in DOMAIN t THEN t[v] ELSE 0]
HasClone(t, w) == w \in DOMAIN t /\ t[w] # 0

\* request i returns e; the deferred RemoveAll runs
PairFail(i, e, branch) ==
  /\ rq' = [rq EXCEPT ![i].pc = "returned", ![i].err = e, ![i].branch = branch]
  /\ tmp' = RemoveDir(tmp, rq[i].workDir)

\* workDir := ...UnixNano(); os.MkdirAll; defer os.RemoveAll
PairMkWorkDir ==
  /\ \E i \in Procs :
       /\ rq[i].pc = "mkdir"
       /\ \E ok \in BOOLEAN :
            IF ~ok
            THEN /\ rq' = [rq EXCEPT ![i].pc = "returned", ![i].err = "mkdir failed"]
                 /\ tmp' = tmp
            ELSE /\ rq' = [rq EXCEPT ![i].pc = "clone", ![i].workDir = WorkDirAt(now)]
                 /\ tmp' = MakeDir(tmp, WorkDirAt(now))
  /\ UNCHANGED <<now, heads>>
  /\ UNCHANGED <<planVars, applyVars, singleVars, ctxVars, workerVars>>

\* cloneRepo: git refuses a destination that holds a clone already, and
\* makes the directories that are missing
PairCloneRepo ==
  /\ \E i \in Procs :
       /\ rq[i].pc = "clone"
       /\ \E ok \in BOOLEAN :
            IF ~ok \/ HasClone(tmp, rq[i].workDir)
            THEN PairFail(i, "git clone failed", <<>>)
            ELSE /\ rq' = [rq EXCEPT ![i].pc = "patch"]
                 /\ tmp' = [MakeDir(tmp, rq[i].workDir) EXCEPT ![rq[i].workDir] = i]
  /\ UNCHANGED <<now, heads>>
  /\ UNCHANGED <<planVars, applyVars, singleVars, ctxVars, workerVars>>

\* enforceSizeCap to GetBranchSHA: the patch is written into the clone
PairPatch ==
  /\ \E i \in Procs :
       /\ rq[i].pc = "patch"
       /\ \E ok \in BOOLEAN :
            IF ~ok \/ ~HasClone(tmp, rq[i].workDir)
            THEN PairFail(i, "patch failed", <<>>)
            ELSE rq' = [rq EXCEPT ![i].pc = "createRef"] /\ tmp' = tmp
  /\ UNCHANGED <<now, heads>>
  /\ UNCHANGED <<planVars, applyVars, singleVars, ctxVars, workerVars>>

\* branch = "argus/fix-" + Unix(); gh.CreateRef: the remote refuses a ref
\* that exists
PairCreateRef ==
  /\ \E i \in Procs :
       /\ rq[i].pc = "createRef"
       /\ \E ok \in BOOLEAN :
            IF ~ok \/ BranchAt(now) \in heads
            THEN PairFail(i, "github api call failed", BranchAt(now)) /\ heads' = heads
            ELSE /\ rq' = [rq EXCEPT ![i].pc = "commitAndPush", ![i].branch = BranchAt(now)]
                 /\ heads' = heads \cup {BranchAt(now)}
                 /\ tmp' = tmp
  /\ UNCHANGED <<now>>
  /\ UNCHANGED <<planVars, applyVars, singleVars, ctxVars, workerVars>>

\* commitAndPush to the return of Create
PairCommitAndPush ==
  /\ \E i \in Procs :
       /\ rq[i].pc = "commitAndPush"
       /\ \E ok \in BOOLEAN :
            IF ~ok \/ ~HasClone(tmp, rq[i].workDir)
            THEN PairFail(i, "git command failed", rq[i].branch)
            ELSE PairFail(i, NoError, rq[i].branch)
  /\ UNCHANGED <<now, heads>>
  /\ UNCHANGED <<planVars, applyVars, singleVars, ctxVars, workerVars>>

PairNext ==
  \/ Tick \/ PairMkWorkDir \/ PairCloneRepo \/ PairPatch \/ PairCreateRef
  \/ PairCommitAndPush

SpecPair == PairInit /\ [][PairNext]_vars

(***************************************************************************)
(* Properties of the planner.                                              *)
(***************************************************************************)
CountType(actions, t) == Cardinality({i \in 1..Len(actions) : actions[i].Type = t})

\* C1: for every findings list and every cap M > 0 the plan returned by
\* BuildPlan has at most M actions.
PlanWithinCap ==
  (planPc = "planned" /\ maxFixes > 0) => Len(plan.Actions) <= maxFixes

\* the cap is met exactly and findings were left over
PlanWithinCapWitness ==
  /\ planPc = "planned" /\ maxFixes > 0
  /\ Len(plan.Actions) = maxFixes
  /\ Len(findings) > maxFixes

\* C9: the plan returned by BuildPlan contains at most one GitIgnoreEnv
\* action, for every findings list and every cap.
AtMostOneGitIgnoreEnv ==
  planPc = "planned" => CountType(plan.Actions, FixGitIgnoreEnv) <= 1

\* two findings would each ask for the .gitignore fix
AtMostOneGitIgnoreEnvWitness ==
  /\ planPc = "planned"
  /\ Cardinality({i \in 1..Len(findings) : ~IsSecretFinding(findings[i])}) >= 2
  /\ CountType(plan.Actions, FixGitIgnoreEnv) = 1
  /\ Len(plan.Manual) >= 1

\* C10 as stated: every plan returned by BuildPlan contains a GitIgnoreEnv
\* action.
AlwaysGitIgnoreEnv ==
  planPc = "planned" => CountType(plan.Actions, FixGitIgnoreEnv) >= 1

\* C10 amended: a plan that holds fewer actions than the cap contains a
\* GitIgnoreEnv action.
GitIgnoreEnvWhenRoom ==
  (planPc = "planned" /\ Len(plan.Actions) < EffectiveMax(maxFixes))
    => CountType(plan.Actions, FixGitIgnoreEnv) = 1

\* the GitIgnoreEnv action was appended after a walk of secret findings only
GitIgnoreEnvWhenRoomWitness ==
  /\ planPc = "planned"
  /\ Len(findings) >= 1
  /\ \A i \in 1..Len(findings) : IsSecretFinding(findings[i])
  /\ Len(plan.Actions) = Len(findings) + 1
  /\ plan.Actions[Len(plan.Actions)].Type = FixGitIgnoreEnv

Root == Clean(RepoDir)

\* the file a redaction action reaches in working copy f
TargetOf(f, action) == Resolve(f, Join(Root, Clean(action.FilePath)))

\* the action's path leaves the root, by its components or through a link
ResolvesOutside(f, action) == ~InsideRoot(TargetOf(f, action), Root)

InResult(seq, x) == \E i \in 1..Len(seq) : seq[i] = x

\* every path outside the root is in g what it was in f
OutsideUnchanged(f, g) ==
  \A p \in DOMAIN f \cup DOMAIN g :
    ~InsideRoot(p, Root) => (p \in DOMAIN f /\ p \in DOMAIN g /\ f[p] = g[p])

\* C3: a SecretRedaction action whose file path resolves outside the
\* working-copy root is not applied but reported as Manual, and ApplyPlan
\* creates or modifies no file outside the root.
EscapeRejected ==
  applyPc = "applied" =>
    /\ \A i \in 1..Len(plan.Actions) :
         (plan.Actions[i].Type = FixSecretRedaction /\ ResolvesOutside(fs0, plan.Actions[i]))
           => ~InResult(result.Applied, plan.Actions[i])
    /\ OutsideUnchanged(fs0, fs)

\* the part of C3 that concerns paths leaving the root by their components
LexicalEscapeRejected ==
  applyPc = "applied" =>
    \A i \in 1..Len(plan.Actions) :
      (plan.Actions[i].Type = FixSecretRedaction
       /\ ~InsideRoot(Join(Root, Clean(plan.Actions[i].FilePath)), Root))
        => /\ ~InResult(result.Applied, plan.Actions[i])
           /\ (result.err = ErrNone =>
                 InResult(result.Manual, ManualOf(ReasonInvalidPath, plan.Actions[i])))

\* C8: when ApplyPlan succeeds, a second run with the same plan leaves
\* every file of the working copy as the first run left it.
ApplyIdempotent ==
  (applyPc = "reapplied" /\ result1.err = ErrNone) => fs = fs1

(***************************************************************************)
(* Properties of the orchestrator.                                         *)
(***************************************************************************)
Called(name) == \E i \in 1..Len(calls) : calls[i] = name
Returned == pc \in {"returned", "done"}

CredentialCalls == {"os.Getenv", "appJWT"}
ProviderCalls == {"POST access_tokens", "GET repo", "GET ref", "POST refs", "POST pulls"}
PatchCalls == {"BuildPlan", "ApplyPlan", "LoadDiff"}

\* C2: an unconfirmed request looks up no provider credentials, performs no
\* token exchange, no provider call and no push, and when it returns a
\* response that response is the dry-run one: mode "dry-run", the diff, no
\* branch and no pull-request URL.
DryRunUsesNoCredentials ==
  ~req.Confirm =>
    /\ \A i \in 1..Len(calls) :
         calls[i] \notin CredentialCalls \cup ProviderCalls \cup {"git push"}
    /\ remote = EmptyRemote
    /\ (Returned /\ ret.err = NoError) =>
         /\ ret.resp.Mode = "dry-run"
         /\ ret.resp.Diff = cr.diffText /\ ret.resp.Diff # <<>>
         /\ ret.resp.Branch = <<>> /\ ret.resp.PRURL = <<>>

\* an unconfirmed request has succeeded with no credentials in the environment
DryRunUsesNoCredentialsWitness ==
  /\ pc = "done" /\ ~req.Confirm /\ env = NoEnv
  /\ ret.err = NoError /\ ret.resp.Mode = "dry-run" /\ http.status = 200
  /\ Called("LoadDiff")

\* C4: every invocation of Create, whatever its outcome, has persisted
\* exactly one RemediationRecord by the time it returns.
ExactlyOneRecord == Returned => Len(prs) = 1

\* C5: on every return of Create after the working directory was created,
\* the working directory and the clone inside it are gone.
WorkDirRemoved ==
  (Returned /\ Called("git clone")) => Under(fs, WorkDir) = {}

\* Create failed after the clone had been checked out and patched
WorkDirRemovedWitness ==
  /\ pc = "returned" /\ ret.err # NoError
  /\ Called("ApplyPlan") /\ Under(fs0, WorkDir) # {}
  /\ Under(fs, WorkDir) = {}

\* C6: when the regular files of the clone exceed the size cap, Create
\* returns an error without BuildPlan, ApplyPlan, the diff or any provider
\* call having run, and the working directory is removed.
OversizeAborts ==
  (Returned /\ Called("enforceSizeCap")
   /\ WalkSize(fs0, RepoDir) > SizeCapMB * BytesPerMB) =>
    /\ ret.err # NoError /\ ret.resp = ZeroResponse
    /\ \A i \in 1..Len(calls) :
         calls[i] \notin PatchCalls \cup ProviderCalls \cup CredentialCalls
    /\ remote = EmptyRemote /\ plan = EmptyPlan
    /\ Under(fs, WorkDir) = {}

\* a clone one byte over the cap has been rejected
OversizeAbortsWitness ==
  /\ pc = "returned" /\ ret.err = "repo exceeds size cap"
  /\ WalkSize(fs0, RepoDir) = SizeCapMB * BytesPerMB + 1
  /\ Under(fs, WorkDir) = {}

\* C7: Create never returns a partial result: with an error the Response is
\* the zero value, without one its mode is "dry-run" or "created".
NoPartialResponse ==
  Returned =>
    /\ ret.err # NoError => ret.resp = ZeroResponse
    /\ ret.err = NoError => ret.resp.Mode \in {"dry-run", "created"}
    /\ (pc = "done" /\ http.status = 400) => http.body = ZeroResponse

\* Create failed after it had computed the diff and created the remote ref
NoPartialResponseWitness ==
  /\ pc = "returned" /\ ret.err # NoError
  /\ cr.diffText # <<>> /\ cr.branch # <<>>

\* url is https://github.com/ ... .git, scheme, host and suffix in any case
HttpsGitHubDotGit(url) ==
  /\ Len(url) > 5
  /\ LowerOf(url[1]) = "https:" /\ url[2] = "/" /\ url[3] = "/"
  /\ LowerOf(url[4]) = "github.com" /\ url[5] = "/"
  /\ LowerOf(url[Len(url)]) = ".git"

\* the request names no repository, or one whose stored URL is off policy
Disallowed ==
  IF req.RepoID \in DOMAIN Repos THEN ~HttpsGitHubDotGit(Repos[req.RepoID]) ELSE TRUE

\* C12: for an unknown repository ID or a stored URL that is not an
\* https://github.com/ URL ending in .git, Create does nothing beyond the
\* repository lookup (no findings query, no working directory, no clone, no
\* provider call, no record) and returns an error.
DisallowedRejectedFirst ==
  (pc # "idle" /\ Disallowed) =>
    /\ \A i \in 1..Len(calls) : calls[i] = "db.QueryRow repos"
    /\ fs = HostFs /\ findings = <<>> /\ ~deferred
    /\ remote = EmptyRemote /\ prs = <<>>
    /\ Returned => (ret.err # NoError /\ ret.resp = ZeroResponse)

\* a confirmed request for a repository stored with an http:// URL was refused
DisallowedRejectedFirstWitness ==
  /\ pc = "done" /\ req.Confirm /\ req.RepoID \in DOMAIN Repos /\ Disallowed
  /\ ret.err = "only github.com .git repos are supported"
  /\ calls = <<"db.QueryRow repos">> /\ http.status = 400

(***************************************************************************)
(* Properties of the applier, action by action.                            *)
(***************************************************************************)
\* what ApplyPlan has done to the working copy fs0 when its loop has gone
\* through the first k actions of the plan
AfterActions(k) ==
  ApplyPlan(fs0, RepoDir, [plan EXCEPT !.Actions = SubSeq(plan.Actions, 1, k)])

\* the loop reported action k as applied
AppliedAt(before, after) ==
  before.err = ErrNone /\ Len(after.Applied) > Len(before.Applied)

\* C13: every action reported in ApplyResult.Applied changed the working
\* copy during the call: the files after the action differ from the files
\* before it.
AppliedChanged ==
  applyPc = "applied" =>
    \A k \in 1..Len(plan.Actions) :
      \A before \in {AfterActions(k - 1)}, after \in {AfterActions(k)} :
        AppliedAt(before, after) => after.fs # before.fs

\* a[i..] can be read off b[j..] from left to right, each element of b used
\* at most once
RECURSIVE SubseqFrom(_, _, _, _)
SubseqFrom(a, b, i, j) ==
  IF i > Len(a) THEN TRUE
  ELSE IF j > Len(b) THEN FALSE
  ELSE IF a[i] = b[j] THEN SubseqFrom(a, b, i + 1, j + 1)
  ELSE SubseqFrom(a, b, i, j + 1)

\* C14: ApplyResult.Applied is a subsequence of Plan.Actions: every applied
\* action is an action of the plan, in plan order, no more often than the
\* plan holds it.
AppliedIsSubsequence ==
  applyPc \in {"applied", "reapplied"} => SubseqFrom(result.Applied, plan.Actions, 1, 1)

\* two different actions were planned and both applied
AppliedIsSubsequenceWitness ==
  /\ applyPc = "applied"
  /\ Len(plan.Actions) = 2 /\ plan.Actions[1] # plan.Actions[2]
  /\ result.Applied = plan.Actions

\* the regular file path p leads to in f, links followed
IsFileAt(f, p) == Resolve(f, p) \in DOMAIN f /\ f[Resolve(f, p)].kind = "file"
AbsentAt(f, p) == Resolve(f, p) \notin DOMAIN f
ContentAt(f, p) == IF IsFileAt(f, p) THEN f[Resolve(f, p)].data ELSE <<>>

GitignoreOf == Join(Root, GitignorePath)
TargetPath(action) == Join(Root, Clean(action.FilePath))

\* .gitignore is absent or a file, and none of its lines is .env (blanks
\* around it aside)
LacksEnvLine(f) ==
  /\ IsFileAt(f, GitignoreOf) \/ AbsentAt(f, GitignoreOf)
  /\ \A l \in {Lines(ContentAt(f, GitignoreOf))} :
       \A i \in 1..Len(l) : TrimSpace(l[i]) # <<EnvLine>>

\* the action targets an existing file under the root whose declared line
\* matches the redaction pattern
DeclaredLineMatches(f, action) ==
  /\ InsideRoot(TargetPath(action), Root)
  /\ IsFileAt(f, TargetPath(action))
  /\ \A l \in {Lines(ContentAt(f, TargetPath(action)))} :
       /\ action.LineStart \in 1..Len(l)
       /\ redactLine(l[action.LineStart]).ok

\* the tokens of the value the pattern finds in line, quotes and an earlier
\* placeholder aside
SecretTokens(line) ==
  {line[i] : i \in {j \in 1..Len(line) :
                      \E m \in {MatchSecretAssign(line)} :
                        m.ok /\ j >= m.valStart /\ j <= m.valEnd}}
    \ {DQ, SQ, PlaceholderBody}

\* the declared line of the action holds the placeholder in g and none of the
\* secret tokens it held in f
LineRedacted(f, g, action) ==
  \A before \in {Lines(ContentAt(f, TargetPath(action)))},
     after \in {Lines(ContentAt(g, TargetPath(action)))} :
    /\ action.LineStart \in 1..Len(after)
    /\ Contains(after[action.LineStart], Placeholder)
    /\ \A i \in 1..Len(after[action.LineStart]) :
         after[action.LineStart][i] \notin SecretTokens(before[action.LineStart])

\* the last line of .gitignore is exactly .env
EndsWithEnvLine(f) ==
  \A d \in {ContentAt(f, GitignoreOf)} :
    /\ Len(d) >= 2 /\ d[Len(d) - 1] = EnvLine /\ d[Len(d)] = LF
    /\ Len(d) > 2 => d[Len(d) - 2] = LF

\* the plan holds SecretRedaction and GitIgnoreEnv actions only, and every
\* redaction meets DeclaredLineMatches on the working copy f
Redactable(f) ==
  \A i \in 1..Len(plan.Actions) :
    \/ plan.Actions[i].Type = FixGitIgnoreEnv
    \/ /\ plan.Actions[i].Type = FixSecretRedaction
       /\ DeclaredLineMatches(f, plan.Actions[i])

\* every action applied, .gitignore closed by .env, every declared line
\* redacted
AllApplied ==
  /\ result.err = ErrNone /\ result.Applied = plan.Actions
  /\ EndsWithEnvLine(fs)
  /\ \A i \in 1..Len(plan.Actions) :
       plan.Actions[i].Type = FixSecretRedaction => LineRedacted(fs0, fs, plan.Actions[i])

\* C15 as stated: when .gitignore has no .env line and every SecretRedaction
\* action targets an existing file whose declared line matches the pattern,
\* ApplyPlan reports every plan action as Applied, .gitignore ends with a
\* line exactly .env, and each targeted line holds the placeholder and no
\* longer the secret.
FullPlanApplied ==
  (applyPc = "applied" /\ LacksEnvLine(fs0) /\ Redactable(fs0)) => AllApplied

\* C15 amended: the same for a plan that holds exactly one GitIgnoreEnv
\* action.
FullPlanAppliedWithIgnore ==
  (applyPc = "applied" /\ LacksEnvLine(fs0) /\ Redactable(fs0)
   /\ CountType(plan.Actions, FixGitIgnoreEnv) = 1) => AllApplied

\* a redaction and the .gitignore fix were planned for a working copy whose
\* .gitignore lacked a final newline, and both were applied
FullPlanAppliedWithIgnoreWitness ==
  /\ applyPc = "applied" /\ LacksEnvLine(fs0) /\ Redactable(fs0)
  /\ Len(plan.Actions) = 2
  /\ plan.Actions[1].Type = FixSecretRedaction
  /\ plan.Actions[2].Type = FixGitIgnoreEnv
  /\ ContentAt(fs0, GitignoreOf) = <<"node_modules/">>
  /\ AllApplied

\* identifier, separator, quoted value, and at most a carriage return
IsQuotedSecretLine(l) ==
  /\ Len(l) \in {5, 6}
  /\ HasKeyword(l[1]) /\ IsAssign(l[2])
  /\ l[3] \in {DQ, SQ} /\ l[5] = l[3] /\ l[4] \notin {DQ, SQ}
  /\ Len(l) = 6 => l[6] = CR

\* identifier, separator, and a bare value of fewer than MinBareLen characters
IsShortBareLine(l) ==
  /\ Len(l) = 3
  /\ IsIdentTok(l[1]) /\ (IsAssign(l[2]) \/ IsBlank(l[2]))
  /\ IsBareTok(l[3]) /\ TokLen(l[3]) < MinBareLen

\* what C16 says of one SecretRedaction action whose target is a file of
\* lines old before the action, and of content data and lines new after it
RedactionAsClaimed(action, before, after, old, data, new) ==
  /\ (action.LineStart \in 1..Len(old) /\ IsQuotedSecretLine(old[action.LineStart])) =>
       /\ AppliedAt(before, after)
       /\ data = JoinWith([old EXCEPT ![action.LineStart] =
                             SubSeq(@, 1, 2) \o Placeholder \o SubSeq(@, 6, Len(@))], LF)
       /\ Contains(new[action.LineStart], Placeholder)
       /\ old[action.LineStart][4] # PlaceholderBody =>
            \A i \in 1..Len(new[action.LineStart]) :
              new[action.LineStart][i] # old[action.LineStart][4]
  /\ \A i \in 1..Len(old) :
       IsShortBareLine(old[i]) => (i <= Len(new) /\ new[i] = old[i])
  /\ (\A i \in 1..Len(old) : ~redactLine(old[i]).ok) =>
       /\ after.fs = before.fs /\ after.Applied = before.Applied
       /\ after.err = ErrNone
       /\ after.Manual = Append(before.Manual, ManualOf(ReasonNoMatch, action))

\* C16: a line with a secret-style identifier, a separator and a quoted
\* value has the value replaced by the placeholder "${SECRET_FROM_ENV}" and
\* no longer holds the secret; a line whose bare value is shorter than 12
\* characters is never redacted; the action becomes a Manual item when no
\* line of the file matches.
RedactionRules ==
  applyPc = "applied" =>
    \A k \in 1..Len(plan.Actions) :
      \A before \in {AfterActions(k - 1)}, after \in {AfterActions(k)} :
        (/\ before.err = ErrNone
         /\ plan.Actions[k].Type = FixSecretRedaction
         /\ InsideRoot(TargetPath(plan.Actions[k]), Root)
         /\ IsFileAt(before.fs, TargetPath(plan.Actions[k]))) =>
          RedactionAsClaimed(plan.Actions[k], before, after,
                             Lines(ContentAt(before.fs, TargetPath(plan.Actions[k]))),
                             ContentAt(after.fs, TargetPath(plan.Actions[k])),
                             Lines(ContentAt(after.fs, TargetPath(plan.Actions[k]))))

\* API_TOKEN='supersecretvalue' was redacted on its declared line
RedactionRulesWitness ==
  /\ applyPc = "applied"
  /\ plan.Actions = <<SecretRedactionAction(<<"app.env">>, 1)>>
  /\ ContentAt(fs0, TargetPath(plan.Actions[1])) = QuotedLine \o <<LF>>
  /\ ContentAt(fs, TargetPath(plan.Actions[1])) = RedactedLine \o <<LF>>
  /\ result.Applied = plan.Actions

(***************************************************************************)
(* Properties of the orchestrator: the diff, the findings, the steps.      *)
(***************************************************************************)
BlankText(d) == \A i \in 1..Len(d) : IsSpace(d[i])

\* C17: the diff text of every successful Response and of every persisted
\* record is non-blank; a diff of the working copy that is empty or only
\* white space is replaced by the sentinel line.
DiffNeverBlank ==
  /\ (Returned /\ ret.err = NoError) => ~BlankText(ret.resp.Diff)
  /\ \A i \in 1..Len(prs) : ~BlankText(prs[i].diff_text)
  /\ (cr.mode # "" /\ ~Returned) =>
       \A d \in {LoadDiff(fs0, fs, RepoDir)} :
         cr.diffText = IF BlankText(d) THEN Sentinel ELSE d

\* a request whose plan changed no tracked file was answered and recorded
\* with the sentinel
DiffNeverBlankWitness ==
  /\ pc = "done" /\ http.status = 200
  /\ http.body.Diff = Sentinel
  /\ Len(prs) = 1 /\ prs[1].diff_text = Sentinel

\* loadFindings has returned without error
Loaded == pc = "mkdir" \/ Called("os.MkdirAll")

\* C18: loadFindings returns at most cap findings, the most recent ones, and
\* exactly one synthetic 'Ensure .env ignored' finding when the repository
\* has none; the planner is never handed an empty list.
FindingsNeverEmpty ==
  Loaded =>
    /\ Len(findings) >= 1
    /\ Len(findings) <= (IF req.MaxFixes <= 0 THEN DefaultMaxFixes ELSE req.MaxFixes)
    /\ dbFindings # <<>> => findings = SubSeq(dbFindings, 1, Len(findings))
    /\ dbFindings = <<>> =>
         findings = <<[Tool |-> <<"policy">>, Title |-> <<"Ensure", SP, ".env", SP, "ignored">>,
                       FilePath |-> <<".gitignore">>, LineStart |-> 0]>>

\* the planner ran on the synthetic finding of a repository without findings
FindingsNeverEmptyWitness ==
  /\ Called("BuildPlan") /\ dbFindings = <<>>
  /\ Len(findings) = 1 /\ findings[1].Tool = <<"policy">>
  /\ plan.Actions = <<GitIgnoreEnvAction>>

\* the place of a step in the confirmed pipeline, 0 for a step the order
\* says nothing about
StepRank(name) ==
  CASE name = "POST access_tokens" -> 1
    [] name = "GET repo" -> 2
    [] name = "GET ref" -> 3
    [] name = "POST refs" -> 4
    [] name = "git checkout -b" -> 5
    [] name = "git config user.email" -> 6
    [] name = "git config user.name" -> 7
    [] name = "git add -A" -> 8
    [] name = "git commit" -> 9
    [] name = "git push" -> 10
    [] name = "POST pulls" -> 11
    [] name = "db.Exec insert prs" -> 12
    [] OTHER -> 0

\* C19: a confirmed request runs token exchange, base-branch resolution,
\* base-commit lookup, remote ref creation, local branch, commit and push,
\* pull-request creation and record persistence in this order, each only
\* after the one before it has succeeded; the mode is "created" only if the
\* pull request was opened.
ConfirmedStepOrder ==
  /\ \A i, j \in 1..Len(calls) :
       (i < j /\ StepRank(calls[i]) > 0 /\ StepRank(calls[j]) > 0)
         => StepRank(calls[i]) < StepRank(calls[j])
  /\ (Called("GET repo") \/ Called("GET ref")) => (Called("POST access_tokens") /\ cr.token # <<>>)
  /\ Called("GET ref") => cr.base # <<>>
  /\ Called("POST refs") => (Called("GET ref") /\ cr.sha # <<>>)
  /\ Called("git checkout -b") =>
       (Called("POST refs") /\ (<<"refs/heads/">> \o cr.branch) \in remote.refs)
  /\ Called("POST pulls") => (Called("git push") /\ remote.pushed # {})
  /\ (req.Confirm /\ Called("db.Exec insert prs")) =>
       (Called("POST pulls") /\ Len(remote.pulls) = 1 /\ cr.mode = "created")
  /\ (cr.mode = "created" \/ ret.resp.Mode = "created") =>
       (req.Confirm /\ Len(remote.pulls) = 1)

\* a confirmed request without a base branch went through every step
ConfirmedStepOrderWitness ==
  /\ pc = "done" /\ http.status = 200 /\ http.body.Mode = "created"
  /\ SelectSeq(calls, LAMBDA c : StepRank(c) > 0) =
       <<"POST access_tokens", "GET repo", "GET ref", "POST refs">> \o GitCmds
         \o <<"POST pulls", "db.Exec insert prs">>

\* no step is in the log twice
NoRepeat ==
  \A i, j \in 1..Len(calls) :
    (i < j /\ calls[i] = calls[j]) => calls[i] = "os.Getenv"

\* C20: within one request every step (clone, provider calls, version-control
\* commands, push, record persistence) is attempted at most once; a failure
\* ends Create at once with the error, no later step executes, and the
\* caller receives the error.
FailFast ==
  /\ [](/\ NoRepeat
        /\ ret.err # NoError => Returned
        /\ (pc = "done" /\ ret.err # NoError) => (http.status = 400 /\ http.error = ret.err))
  /\ [][Returned => UNCHANGED <<calls, remote, prs, fs, cr, ret>>]_vars

\* the commit failed: no push, no pull request, no record, and the caller
\* has the error
FailFastWitness ==
  /\ pc = "done" /\ http.error = "git command failed"
  /\ calls[Len(calls)] = "git commit"
  /\ remote.pushed = {} /\ remote.pulls = <<>> /\ prs = <<>>
(***************************************************************************)
(* Properties of the confirmed path: what stays on the remote, and the     *)
(* credentials.                                                            *)
(***************************************************************************)
IsPrefix(a, b) == Len(a) <= Len(b) /\ SubSeq(b, 1, Len(a)) = a

RemoteSteps == {"git push", "POST pulls", "db.Exec insert prs"} \cup
               {GitCmds[i] : i \in 1..Len(GitCmds)}

\* C21: when a step after the creation of the remote ref fails (a git
\* command of the push, the creation of the pull request, the insert of the
\* record), Create returns an error and undoes nothing: the failing step is
\* the last call made, and no ref, pushed commit or pull request ever leaves
\* the remote.
NoCompensation ==
  /\ [](Returned /\ remote.refs # {} /\ prs = <<>>
          => /\ ret.err # NoError
             /\ ret.resp = ZeroResponse
             /\ calls[Len(calls)] \in RemoteSteps
             /\ <<"refs/heads/">> \o cr.branch \in remote.refs)
  /\ [][/\ remote.refs \subseteq remote'.refs
         /\ remote.pushed \subseteq remote'.pushed
         /\ IsPrefix(remote.pulls, remote'.pulls)]_vars

\* the record could not be written after the ref, the push and the pull
\* request were made: all three are still on the remote
NoCompensationWitness ==
  /\ pc = "done" /\ http.status = 400 /\ http.error = "insert failed"
  /\ remote.refs # {} /\ remote.pushed # {} /\ remote.pulls # <<>>
  /\ prs = <<>>
\* credentials that are missing or malformed: a variable that is blank, an
\* id that is not a decimal number, a key that is not an RSA key
MalformedCredentials ==
  \/ BlankText(env.GITHUB_APP_ID) \/ BlankText(env.GITHUB_INSTALLATION_ID)
  \/ BlankText(env.GITHUB_PRIVATE_KEY_PEM)
  \/ ~IsNumeric(env.GITHUB_APP_ID) \/ ~IsNumeric(env.GITHUB_INSTALLATION_ID)
  \/ env.GITHUB_PRIVATE_KEY_PEM # <<"RSA PRIVATE KEY">>

\* C22: with missing or malformed credentials no token exchange is made
\* and no token held; while no token is held no ref is created, nothing is
\* pushed, no pull request opened and no provider call made with a token;
\* and a confirmed request that returns without a token returns an error.
AuthFailureStopsRequest ==
  /\ MalformedCredentials => cr.token = <<>> /\ ~Called("POST access_tokens")
  /\ cr.token = <<>>
       => /\ remote = EmptyRemote /\ bearer = <<>>
          /\ ~Called("POST refs") /\ ~Called("git push") /\ ~Called("POST pulls")
  /\ req.Confirm /\ Returned /\ cr.token = <<>> => ret.err # NoError

\* the exchange answered with an empty token
AuthFailureStopsRequestWitness ==
  /\ pc = "done" /\ req.Confirm /\ ~MalformedCredentials
  /\ Called("POST access_tokens") /\ http.error = "empty installation token"
  /\ cr.token = <<>> /\ remote = EmptyRemote
TokenExchange == "POST access_tokens"
TokenUsers == (ProviderCalls \ {TokenExchange}) \cup {"git push"}
CountCalls(names) == Cardinality({i \in 1..Len(calls) : calls[i] \in names})

InFlight(i) == rq[i].pc \in {"clone", "patch", "createRef", "commitAndPush"}

\* C24: two requests in flight never have the same work directory, and a
\* clone leaves the temporary directory only when the request that made it
\* returns.
WorkDirsDistinct ==
  /\ [](\A i, j \in Procs :
          i # j /\ InFlight(i) /\ InFlight(j) => rq[i].workDir # rq[j].workDir)
  /\ [][\A w \in DOMAIN tmp :
          HasClone(tmp, w) /\ ~HasClone(tmp', w)
            => rq[tmp[w]].pc # "returned" /\ rq'[tmp[w]].pc = "returned"]_vars

\* C25: two requests never construct the same branch name.
BranchNamesUnique ==
  \A i, j \in Procs :
    i # j /\ rq[i].branch # <<>> /\ rq[j].branch # <<>> => rq[i].branch # rq[j].branch
(***************************************************************************)
(* Properties of cancellation and of a remote that never answers.          *)
(***************************************************************************)
NetworkSteps ==
  {"clone", "token", "defaultBranch", "branchSHA", "createRef", "createPR"}

\* C26: once the request context is cancelled, a clone or a provider call
\* ends Create with an error, and the work directory is removed.
CancelAborts ==
  [][cancelled /\ pc \in NetworkSteps
       => /\ pc' = "returned" /\ ret'.err # NoError
          /\ Under(fs', WorkDir) = {}]_vars

\* C27: every invocation of Create returns in the end, also when the remote
\* never answers.
EventuallyReturns == <>Returned
(***************************************************************************)
(* Properties of the applier: errors and the Manual list.                  *)
(***************************************************************************)
\* a working copy of plain files: .gitignore and app.env are regular files
\* or absent, and nothing in it is a link
PlainCopy(f) ==
  /\ \A p \in Under(f, Root) : f[p].kind \in {"file", "dir"}
  /\ \A p \in {GitignoreOf, Join(Root, <<"app.env">>)} : p \in DOMAIN f => f[p].kind = "file"

\* C28: on a working copy of plain files ApplyPlan returns no error,
\* whatever the paths and line numbers of the actions.
ApplyNeverFails ==
  applyPc = "applied" /\ PlainCopy(fs0) => result.err = ErrNone

\* the Manual item of an action
ItemOf(action, reason) ==
  [Reason |-> reason, Title |-> action.Description, File |-> action.FilePath]

\* why ApplyPlan does not apply a SecretRedaction or unknown action
ReasonFor(action) ==
  IF action.Type # FixSecretRedaction THEN ReasonUnsupported
  ELSE IF ~InsideRoot(TargetPath(action), Root) THEN ReasonInvalidPath
  ELSE ReasonNoMatch

\* one action of the plan, from the result before it to the result after it:
\* applied, turned into one Manual item, or a GitIgnoreEnv that found .env
\* ignored
StepAccounted(action, before, after) ==
  \/ /\ after.Applied = Append(before.Applied, action)
     /\ after.Manual = before.Manual
  \/ /\ action.Type # FixGitIgnoreEnv
     /\ after.Applied = before.Applied
     /\ after.Manual = Append(before.Manual, ItemOf(action, ReasonFor(action)))
     /\ after.fs = before.fs
  \/ /\ action.Type = FixGitIgnoreEnv
     /\ ~LacksEnvLine(before.fs)
     /\ after.Applied = before.Applied
     /\ after.Manual = before.Manual
     /\ after.fs = before.fs

\* C29: after a successful ApplyPlan, Manual starts with Plan.Manual, and
\* each action of the plan either was appended to Applied, or added exactly
\* one item to Manual (invalid path, no match or missing target, unsupported
\* kind), or is a GitIgnoreEnv action that found .env already ignored.
ManualAccountsForPlan ==
  applyPc = "applied" /\ result.err = ErrNone =>
    /\ IsPrefix(plan.Manual, result.Manual)
    /\ Len(result.Applied) + (Len(result.Manual) - Len(plan.Manual)) <= Len(plan.Actions)
    /\ \A k \in 1..Len(plan.Actions) :
         \A before \in {AfterActions(k - 1)}, after \in {AfterActions(k)} :
           StepAccounted(plan.Actions[k], before, after)

\* a plan with a manual item and two actions that are both turned into
\* Manual items: an escaping path and an unsupported kind
ManualAccountsForPlanWitness ==
  /\ applyPc = "applied" /\ result.err = ErrNone
  /\ plan.Manual # <<>> /\ Len(plan.Actions) = 2
  /\ Len(result.Manual) = Len(plan.Manual) + 2
  /\ result.Manual[Len(result.Manual) - 1].Reason = ReasonInvalidPath
  /\ result.Manual[Len(result.Manual)].Reason = ReasonUnsupported

\* C30: the manual items listed in the body of the pull request are all the
\* items of ApplyResult.Manual.
BodyListsAllManual ==
  \A i \in 1..Len(remote.pulls) :
    \A j \in 1..Len(result.Manual) : InResult(remote.pulls[i].manual, result.Manual[j])
(***************************************************************************)
(* Properties of one redaction and of one .gitignore update.               *)
(***************************************************************************)
\* new is old with one run of tokens inside a line, old[a..b], replaced by
\* the placeholder, and every other token, line terminators included, kept
ValueReplaced(old, new) ==
  \E a \in 1..Len(old) : \E b \in a..Len(old) :
    /\ \A i \in a..b : old[i] \notin {CR, LF}
    /\ new = SubSeq(old, 1, a - 1) \o Placeholder \o SubSeq(old, b + 1, Len(old))

\* C31: a successful redaction replaces only the matched value: the rest of
\* the line, every other line and all line terminators of the file are the
\* same after the action as before.
OnlyValueReplaced ==
  applyPc = "applied" =>
    \A k \in 1..Len(plan.Actions) :
      \A before \in {AfterActions(k - 1)}, after \in {AfterActions(k)} :
        (/\ AppliedAt(before, after)
         /\ after.err = ErrNone
         /\ plan.Actions[k].Type = FixSecretRedaction) =>
          ValueReplaced(ContentAt(before.fs, TargetPath(plan.Actions[k])),
                        ContentAt(after.fs, TargetPath(plan.Actions[k])))
\* line i of lines matches the redaction pattern
Matches(lines, i) == i \in 1..Len(lines) /\ MatchSecretAssign(lines[i]).ok

\* the line C32 names: the declared one when it is in the file and matches,
\* else the lowest-numbered line that matches, 0 when there is none
ClaimedLine(lines, lineStart) ==
  IF Matches(lines, lineStart) THEN lineStart
  ELSE IF \E i \in 1..Len(lines) : Matches(lines, i)
  THEN CHOOSE i \in 1..Len(lines) :
         Matches(lines, i) /\ \A j \in 1..(i - 1) : ~Matches(lines, j)
  ELSE 0

\* what C32 says of one SecretRedaction action on the path target, whose
\* file has the lines old before the action (none when it is missing)
OneLineRewritten(action, before, after, target, old, t) ==
  IF AbsentAt(before.fs, target) \/ t = 0
  THEN /\ after.fs = before.fs
       /\ after.Applied = before.Applied
       /\ after.Manual = Append(before.Manual, ManualOf(ReasonNoMatch, action))
  ELSE /\ after.Applied = Append(before.Applied, action)
       /\ after.Manual = before.Manual
       /\ \A l \in {Lines(ContentAt(after.fs, target))} :
            /\ Len(l) = Len(old)
            /\ \A i \in 1..Len(old) : i # t => l[i] = old[i]
            /\ Contains(l[t], Placeholder)

\* C32: an applied SecretRedaction action rewrites exactly one line, the
\* declared line when it lies in the file and matches the pattern, else the
\* lowest-numbered matching line; when the file is missing or no line
\* matches, nothing is written and the action becomes a Manual item.
DeclaredOrFirstMatch ==
  applyPc = "applied" =>
    \A k \in 1..Len(plan.Actions) :
      \A before \in {AfterActions(k - 1)}, after \in {AfterActions(k)},
         target \in {TargetPath(plan.Actions[k])} :
        (/\ after.err = ErrNone
         /\ plan.Actions[k].Type = FixSecretRedaction
         /\ InsideRoot(target, Root)) =>
          \A old \in {Lines(ContentAt(before.fs, target))} :
            OneLineRewritten(plan.Actions[k], before, after, target, old,
                             ClaimedLine(old, plan.Actions[k].LineStart))

\* both lines of the file match and the action declares the second: the
\* second is rewritten, the first kept
DeclaredOrFirstMatchWitness ==
  /\ applyPc = "applied"
  /\ plan.Actions = <<SecretRedactionAction(<<".", "/", "app.env">>, 2)>>
  /\ ContentAt(fs0, Join(Root, <<"app.env">>)) = QuotedLine \o <<LF>> \o BareLine \o <<LF>>
  /\ ContentAt(fs, Join(Root, <<"app.env">>)) = QuotedLine \o <<LF>> \o RedactedLine \o <<LF>>
  /\ result.Applied = plan.Actions
\* what C33 says of one GitIgnoreEnv action on a .gitignore of content old
\* (empty when the file is missing) that has the content new afterwards
GitignoreAsClaimed(before, after, action, old, new) ==
  IF \E l \in {Lines(old)} : \E i \in 1..Len(l) : TrimSpace(l[i]) = <<EnvLine>>
  THEN /\ after.fs = before.fs
       /\ after.Applied = before.Applied /\ after.Manual = before.Manual
  ELSE /\ new = old \o (IF old # <<>> /\ old[Len(old)] # LF THEN <<LF>> ELSE <<>>)
                    \o <<EnvLine, LF>>
       /\ after.Applied = Append(before.Applied, action)
       /\ after.Manual = before.Manual

\* C33: a GitIgnoreEnv action leaves .gitignore untouched and is not
\* reported when a line of it equals .env after trimming; otherwise the new
\* content is the old (empty for a missing file), a newline when the old is
\* non-empty without a final one, and the line .env.
GitignoreAppendOnly ==
  applyPc = "applied" =>
    \A k \in 1..Len(plan.Actions) :
      \A before \in {AfterActions(k - 1)}, after \in {AfterActions(k)} :
        (/\ before.err = ErrNone /\ after.err = ErrNone
         /\ plan.Actions[k].Type = FixGitIgnoreEnv) =>
          GitignoreAsClaimed(before, after, plan.Actions[k],
                             ContentAt(before.fs, GitignoreOf),
                             ContentAt(after.fs, GitignoreOf))

\* .gitignore held node_modules/ without a final newline
GitignoreAppendOnlyWitness ==
  /\ applyPc = "applied" /\ result.err = ErrNone
  /\ plan.Actions = <<GitIgnoreEnvAction>>
  /\ ContentAt(fs0, GitignoreOf) = <<"node_modules/">>
  /\ ContentAt(fs, GitignoreOf) = <<"node_modules/", LF, EnvLine, LF>>
  /\ result.Applied = plan.Actions
(***************************************************************************)
(* Properties of the planner, finding by finding.                          *)
(***************************************************************************)
\* the tool or the title indicates a secret, and there is a file path
SecretWithPath(f) ==
  /\ \/ ToLower(TrimSpace(f.Tool)) = <<"gitleaks">>
     \/ Contains(ToLower(f.Title), <<"secret">>)
  /\ TrimSpace(f.FilePath) # <<>>

\* finding i of F asks for an action: a secret finding with a path, or the
\* first finding that is not one
EmitsAction(F, i) ==
  SecretWithPath(F[i]) \/ \A j \in 1..(i - 1) : SecretWithPath(F[j])

\* the findings processed before the cap is reached
Processed(F, cap) ==
  {i \in 1..Len(F) : Cardinality({j \in 1..(i - 1) : EmitsAction(F, j)}) < cap}

IsRedaction(a) == a.Type = FixSecretRedaction

RECURSIVE RedactionsFrom(_, _, _)
RedactionsFrom(F, cap, i) ==
  IF i > Len(F) THEN <<>>
  ELSE (IF i \in Processed(F, cap) /\ SecretWithPath(F[i])
        THEN <<[Type |-> FixSecretRedaction, FilePath |-> TrimSpace(F[i].FilePath),
                LineStart |-> F[i].LineStart, Description |-> DescRedact]>>
        ELSE <<>>) \o RedactionsFrom(F, cap, i + 1)

\* C34: for the findings processed before the cap is reached, BuildPlan
\* emits a SecretRedaction action exactly for those whose tool is gitleaks
\* or whose title contains "secret" in any case and whose trimmed file path
\* is not empty; the action carries the path and the line of its finding,
\* the actions come in the order of their findings, and one secret finding
\* alone under a cap of two or more gives [SecretRedaction, GitIgnoreEnv].
RedactionPerSecretFinding ==
  planPc = "planned" =>
    /\ SelectSeq(plan.Actions, IsRedaction)
         = RedactionsFrom(findings, EffectiveMax(maxFixes), 1)
    /\ (Len(findings) = 1 /\ SecretWithPath(findings[1])
          /\ EffectiveMax(maxFixes) >= 2) =>
         (/\ Len(plan.Actions) = 2
          /\ plan.Actions[1].Type = FixSecretRedaction
          /\ plan.Actions[2] = GitIgnoreEnvAction)

\* a finding named by its tool alone and one named by its title alone were
\* both turned into actions, around a finding that is not a secret
RedactionPerSecretFindingWitness ==
  /\ planPc = "planned" /\ Len(findings) = 3
  /\ findings[1].Tool = <<SP, "Gitleaks">>
  /\ ~SecretWithPath(findings[2])
  /\ findings[3].Tool = <<"semgrep">> /\ SecretWithPath(findings[3])
  /\ Len(plan.Actions) = 3
  /\ plan.Actions[1].FilePath = <<"cfg.yaml">> /\ plan.Actions[1].LineStart = 7
  /\ plan.Actions[3].FilePath = <<"..", "/", "out.env">>

\* the first processed finding that is not a secret finding with a path
FirstOther(F, cap) ==
  {i \in Processed(F, cap) :
     ~SecretWithPath(F[i]) /\ \A j \in 1..(i - 1) : SecretWithPath(F[j])}

RECURSIVE ManualFrom(_, _, _)
ManualFrom(F, cap, i) ==
  IF i > Len(F) THEN <<>>
  ELSE (IF i \in Processed(F, cap) /\ ~EmitsAction(F, i)
        THEN <<[Title |-> F[i].Title, File |-> F[i].FilePath]>>
        ELSE <<>>) \o ManualFrom(F, cap, i + 1)

TitleAndFile(items) ==
  [n \in 1..Len(items) |-> [Title |-> items[n].Title, File |-> items[n].File]]

\* C35: among the findings processed before the cap is reached, the first
\* one that is not a secret finding with a file path gives the GitIgnoreEnv
\* action and no Manual item; every later one gives exactly one Manual item
\* with its title and file, in finding order; a secret finding with a file
\* path gives no Manual item.
ManualPerOtherFinding ==
  planPc = "planned" =>
    /\ TitleAndFile(plan.Manual) = ManualFrom(findings, EffectiveMax(maxFixes), 1)
    /\ \A i \in FirstOther(findings, EffectiveMax(maxFixes)) :
         /\ Len(plan.Actions) >= i
         /\ plan.Actions[i] = GitIgnoreEnvAction

\* a secret finding, then the finding that gave the GitIgnoreEnv action,
\* then one that was left to a person
ManualPerOtherFindingWitness ==
  /\ planPc = "planned" /\ Len(findings) = 3
  /\ SecretWithPath(findings[1])
  /\ ~SecretWithPath(findings[2]) /\ ~SecretWithPath(findings[3])
  /\ findings[2] # findings[3]
  /\ Len(plan.Actions) = 2 /\ plan.Actions[2].Type = FixGitIgnoreEnv
  /\ Len(plan.Manual) = 1 /\ plan.Manual[1].Title = findings[3].Title

\* C36: once the plan holds cap actions BuildPlan stops walking: the plan
\* is the one the processed findings give alone, and no finding after them
\* adds an action or a manual item.
StopsAtCap ==
  planPc = "planned" =>
    \A n \in {Cardinality(Processed(findings, EffectiveMax(maxFixes)))} :
      /\ plan = BuildPlan(SubSeq(findings, 1, n), maxFixes)
      /\ Len(plan.Actions) + Len(plan.Manual) <= n + 1
      /\ n < Len(findings) =>
           /\ Len(plan.Actions) = EffectiveMax(maxFixes)
           /\ Len(plan.Actions) + Len(plan.Manual) = n

\* the cap was met by the first finding; a secret finding and another one
\* were left over
StopsAtCapWitness ==
  /\ planPc = "planned" /\ maxFixes = 1 /\ Len(findings) = 3
  /\ SecretWithPath(findings[2]) /\ ~SecretWithPath(findings[3])
  /\ Len(plan.Actions) = 1 /\ plan.Manual = <<>>

\* C37: the plan lacks a GitIgnoreEnv action exactly when there are at
\* least cap findings and the first cap of them are all secret findings
\* with a file path; every other plan holds exactly one.
GitIgnoreEnvUnlessCrowdedOut ==
  planPc = "planned" =>
    \A cap \in {EffectiveMax(maxFixes)} :
      IF Len(findings) >= cap /\ \A i \in 1..cap : SecretWithPath(findings[i])
      THEN CountType(plan.Actions, FixGitIgnoreEnv) = 0
      ELSE CountType(plan.Actions, FixGitIgnoreEnv) = 1

\* secret findings filled the cap, and a later finding that would have
\* asked for the .gitignore fix was not walked
GitIgnoreEnvUnlessCrowdedOutWitness ==
  /\ planPc = "planned" /\ maxFixes = 2 /\ Len(findings) = 3
  /\ SecretWithPath(findings[1]) /\ SecretWithPath(findings[2])
  /\ ~SecretWithPath(findings[3])
  /\ CountType(plan.Actions, FixGitIgnoreEnv) = 0

\* C38: a successful Response, and the record persisted with it, carries a
\* branch and a pull request URL, both non-empty, when its mode is "created",
\* and neither of the two when its mode is "dry-run".
CreatedCarriesBranchAndURL ==
  /\ (pc \in {"returned", "done"} /\ ret.err = NoError) =>
       /\ ret.resp.Mode = "created" =>
            ret.resp.Branch # <<>> /\ ret.resp.PRURL # <<>>
       /\ ret.resp.Mode = "dry-run" =>
            ret.resp.Branch = <<>> /\ ret.resp.PRURL = <<>>
  /\ \A n \in 1..Len(prs) :
       /\ prs[n].status = "created" =>
            prs[n].branch # nullIfEmpty(<<>>) /\ prs[n].pr_url # nullIfEmpty(<<>>)
       /\ prs[n].status = "dry-run" =>
            prs[n].branch = nullIfEmpty(<<>>) /\ prs[n].pr_url = nullIfEmpty(<<>>)

MaxQueue == 2
JobIDs == {"j1", "j2"}
Tools == {"semgrep", "gitleaks", "trivy"}
Terminal == {"succeeded", "failed"}

\* the payloads on the list: a job message, or bytes json.Unmarshal rejects
Payloads ==
  {[valid |-> TRUE, msg |-> [JobID |-> j, RepoID |-> r]] :
     j \in JobIDs, r \in {"r1", "r2", UnknownRepo}}
    \cup {[valid |-> FALSE, msg |-> NoMsg]}

\* isSafeRepoURL
isSafeRepoURL(raw) ==
  \E url \in {TrimSpace(ToLower(raw))} :
    /\ HasPrefix(url, HttpsScheme) /\ HasSuffix(url, GitSuffix)
    /\ HasPrefix(url, GitHubPrefix)

JobRow(status, e) == [status |-> status, error |-> e]

\* UPDATE jobs SET status=... WHERE id=jobID, made with a context that is
\* done or live
Update(ctxDone, table, jobID, row) ==
  IF ctxDone \/ jobID \notin DOMAIN table THEN table
  ELSE [table EXCEPT ![jobID] = row]

failJob(ctxDone, table, jobID, e) ==
  Update(ctxDone, table, jobID, JobRow("failed", e))

WorkerInit ==
  /\ findings = <<>> /\ maxFixes = 0 /\ plan = EmptyPlan /\ plan1 = EmptyPlan
  /\ planPc = "idle"
  /\ ApplyIdle
  /\ pc = "idle" /\ req = NoRequest /\ env = NoEnv /\ dbFindings = <<>>
  /\ cr = ZeroLocals /\ deferred = FALSE /\ calls = <<>> /\ prs = <<>>
  /\ remote = EmptyRemote /\ ret = NoReturn /\ http = NoHttp
  /\ bearer = <<>>
  /\ CtxIdle
  /\ PairIdle
  /\ queue \in {q \in SeqsUpTo(Payloads, MaxQueue) :
                  \A a, b \in 1..Len(q) :
                    (a # b /\ q[a].valid /\ q[b].valid) =>
                      q[a].msg.JobID # q[b].msg.JobID}
  /\ jobs = [j \in JobIDs |-> JobRow("queued", "")]
  /\ found = {} /\ wpc = "brpop" /\ msg = NoMsg /\ expired = FALSE
  /\ workRoot = FALSE /\ taken = {}

restVars == <<planVars, applyVars, createVars>>

\* main: BRPop, json.Unmarshal, context.WithTimeout.  An error of the queue
\* is printed and the loop goes on; a payload that does not parse is dropped
BRPop ==
  /\ wpc = "brpop" /\ queue # <<>>
  /\ \/ UNCHANGED <<queue, msg, wpc, expired, taken>>
     \/ \E p \in {queue[Len(queue)]} :
          /\ queue' = SubSeq(queue, 1, Len(queue) - 1)
          /\ IF p.valid
             THEN /\ msg' = p.msg /\ wpc' = "markRunning" /\ expired' = FALSE
                  /\ taken' = taken \cup {p.msg.JobID}
             ELSE UNCHANGED <<msg, wpc, expired, taken>>
  /\ UNCHANGED <<jobs, found, workRoot, restVars>>

\* the deadline of jobCtx passes while runJob is running
JobTimeout ==
  /\ wpc # "brpop" /\ ~expired
  /\ expired' = TRUE
  /\ UNCHANGED <<queue, jobs, found, wpc, msg, workRoot, taken, restVars>>

\* runJob returns to main: the deferred RemoveAll, then cancel() and the
\* next BRPop
Returns == wpc' = "brpop" /\ workRoot' = FALSE

MarkRunning ==
  /\ wpc = "markRunning"
  /\ jobs' = Update(expired, jobs, msg.JobID, JobRow("running", ""))
  /\ IF expired THEN Returns ELSE wpc' = "queryRepo" /\ workRoot' = workRoot
  /\ UNCHANGED <<queue, found, msg, expired, taken, restVars>>

QueryRepoRow ==
  /\ wpc = "queryRepo"
  /\ IF expired \/ msg.RepoID \notin DOMAIN Repos
     THEN jobs' = failJob(expired, jobs, msg.JobID, "repo not found") /\ Returns
     ELSE jobs' = jobs /\ wpc' = "policy" /\ workRoot' = workRoot
  /\ UNCHANGED <<queue, found, msg, expired, taken, restVars>>

CheckRepoURL ==
  /\ wpc = "policy"
  /\ IF ~isSafeRepoURL(Repos[msg.RepoID])
     THEN /\ jobs' = failJob(expired, jobs, msg.JobID, "repo url rejected by policy")
          /\ Returns
     ELSE jobs' = jobs /\ wpc' = "mkdir" /\ workRoot' = workRoot
  /\ UNCHANGED <<queue, found, msg, expired, taken, restVars>>

MkWorkRoot ==
  /\ wpc = "mkdir"
  /\ \E ok \in BOOLEAN :
       IF ~ok
       THEN jobs' = failJob(expired, jobs, msg.JobID, "cannot create workdir") /\ Returns
       ELSE jobs' = jobs /\ wpc' = "clone" /\ workRoot' = TRUE
  /\ UNCHANGED <<queue, found, msg, expired, taken, restVars>>

\* safeClone: git clone under the job's context, then the size limit
SafeClone ==
  /\ wpc = "clone"
  /\ \E ok \in BOOLEAN :
       /\ expired => ~ok
       /\ IF ~ok
          THEN jobs' = failJob(expired, jobs, msg.JobID, "clone failed") /\ Returns
          ELSE jobs' = jobs /\ wpc' = "semgrep" /\ workRoot' = workRoot
  /\ UNCHANGED <<queue, found, msg, expired, taken, restVars>>

\* one scanner: its error is printed, its findings are inserted with the
\* job's context
RunTool(tool, next) ==
  /\ \E rows \in BOOLEAN :
       /\ expired => ~rows
       /\ found' = IF rows THEN found \cup {<<msg.JobID, tool>>} ELSE found
  /\ wpc' = next
  /\ UNCHANGED <<queue, jobs, msg, expired, workRoot, taken, restVars>>

RunSemgrep == wpc = "semgrep" /\ RunTool("semgrep", "gitleaks")
RunGitleaks == wpc = "gitleaks" /\ RunTool("gitleaks", "trivy")
RunTrivy == wpc = "trivy" /\ RunTool("trivy", "markSucceeded")

MarkSucceeded ==
  /\ wpc = "markSucceeded"
  /\ jobs' = Update(expired, jobs, msg.JobID, JobRow("succeeded", jobs[msg.JobID].error))
  /\ Returns
  /\ UNCHANGED <<queue, found, msg, expired, taken, restVars>>

\* the steps of the worker, which the scheduler runs when they can be taken
WorkerStep ==
  \/ BRPop \/ MarkRunning \/ QueryRepoRow \/ CheckRepoURL \/ MkWorkRoot
  \/ SafeClone \/ RunSemgrep \/ RunGitleaks \/ RunTrivy \/ MarkSucceeded

WorkerNext == WorkerStep \/ JobTimeout

SpecWorker == WorkerInit /\ [][WorkerNext]_vars /\ WF_vars(WorkerStep)

\* runJob has returned for job j
RunJobReturned(j) == j \in taken /\ (wpc = "brpop" \/ msg.JobID # j)

\* C40: every scan job the worker takes from the queue reaches a terminal
\* status, succeeded or failed, in the jobs table in the end, also when the
\* timeout of the job expires or a step fails, and no job has the status
\* running once runJob has returned for it.
TakenJobsFinish ==
  /\ \A j \in JobIDs : (j \in taken) ~> (jobs[j].status \in Terminal)
  /\ [](\A j \in JobIDs : RunJobReturned(j) => jobs[j].status # "running")

====
